---- MODULE Spec2Model ----
(***************************************************************************)
(* Passport photo sheet maker: the layout table, the sheet compositor      *)
(* (CanvasRenderer), the configuration lookups, the options form and the   *)
(* editor's guide overlay (GuidelinesManager), as state machines.          *)
(*                                                                         *)
(* Lengths are JavaScript Numbers in the source.  Here every pixel length  *)
(* is an integer count of 1/SubPx pixel, so that the halves and quarters   *)
(* produced by "/ 2" and the thirds produced by "dpi / 150" are exact.     *)
(* DPI values are multiples of 50 and inch literals are hundredths of an   *)
(* inch, for which the IEEE-754 results of the source's expressions are    *)
(* these rationals (dpi / 150 to within one rounding).                     *)
(***************************************************************************)
EXTENDS Integers, Sequences, FiniteSets, TLC

VARIABLES
    canvas,       \* this.canvas: [width, height] of the sheet canvas
    ops,          \* drawing calls issued on this.ctx by the latest operation
    op,           \* the latest CanvasRenderer operation
    args,         \* arguments of createComposite: layout, dpi, options
    ref,          \* a remembered earlier call: its arguments and geometry
    sizeKey,      \* argument of getLayout
    quality,      \* argument of getDPI
    layoutResult, \* value returned by getLayout
    dpiResult,    \* value returned by getDPI
    form,         \* the options form: its selects, and the last options
                  \* handed to the change callback
    guide,        \* GuidelinesManager: canvas size, the two flags, last call
    overlayCtx,   \* drawing state of the overlay canvas's 2D context
    overlayOps,   \* drawing calls of the latest GuidelinesManager operation
    firstRender,  \* per pair of flags, the calls of the first render with it
    app,          \* PhotoSheetApp: current image, debounce timer, clock, calls
    crop,         \* photo editor: crop mode and the overlay's last painter
    store,        \* StateManager: state, subscribers, calls of the last update
    upload,       \* PhotoUploadHandler: current image, storage, uploads in flight
    editor,       \* CanvasEditor instances and their listeners and transforms
    notif         \* NotificationManager: notifications, close timers, onClose calls

rendererVars == <<canvas, ops, op, args, ref>>

configVars == <<sizeKey, quality, layoutResult, dpiResult>>

formVars == <<form>>

guideVars == <<guide, overlayCtx, overlayOps, firstRender>>

pageVars == <<app, crop, store, upload, editor, notif>>

sheetVars == <<rendererVars, configVars, formVars, guideVars>>

vars == <<sheetVars, pageVars>>

---------------------------------------------------------------------------
(* Bounds of the model *)

MaxCols == 2
MaxRows == 3
MaxDpiStep == 4
MaxGapStep == 2

---------------------------------------------------------------------------
(* Numbers *)

SubPx == 12

Px(n) == n * SubPx

\* inch literal (in hundredths of an inch) * dpi, e.g. 0.25 * dpi
InchesTimesDpi(hundredths, dpi) == (hundredths * dpi * SubPx) \div 100

Half(n) == n \div 2

\* Overlay lengths are integer counts of 1/OverlaySubPx pixel: the guide
\* radii are products of a canvas height, a head-height fraction given to
\* four decimals (0.6875) and 0.72.
OverlaySubPx == 10000

Max(a, b) == IF a >= b THEN a ELSE b

RECURSIVE Concat(_)
Concat(ss) == IF ss = <<>> THEN <<>> ELSE Head(ss) \o Concat(Tail(ss))

---------------------------------------------------------------------------
(* Layout configuration *)

Preset(w, h, c, r, n) ==
    [width |-> w, height |-> h, cols |-> c, rows |-> r, photos |-> n,
     customSpacing |-> FALSE, spacingType |-> "undefined"]

LAYOUTS ==
    ("4x6" :> Preset(4, 6, 2, 3, 6)) @@
    ("5x7" :> Preset(5, 7, 2, 3, 6)) @@
    ("8x10" :> Preset(8, 10, 4, 5, 20))

PHOTO_SIZE_INCHES == 2

DPI_SETTINGS == ("high" :> 300) @@ ("medium" :> 200)

\* Property names every plain object inherits from Object.prototype.
ObjectPrototypeKeys ==
    {"constructor", "toString", "valueOf", "hasOwnProperty", "__proto__"}

\* obj[key] of a plain object literal: own property, else the prototype
\* chain, else undefined.
GetProperty(obj, own, key) ==
    IF key \in own THEN [tag |-> "own", obj |-> obj, key |-> key]
    ELSE IF key \in ObjectPrototypeKeys
         THEN [tag |-> "inherited", obj |-> "Object.prototype", key |-> key]
         ELSE [tag |-> "undefined", obj |-> obj, key |-> key]

\* ToBoolean of such a value: layout objects, the non-zero DPI numbers and
\* the inherited functions and objects are truthy, undefined is falsy.
Truthy(v) == v.tag # "undefined"

getLayout(key) ==
    LET v == GetProperty("LAYOUTS", DOMAIN LAYOUTS, key)
    IN  IF Truthy(v) THEN v ELSE GetProperty("LAYOUTS", DOMAIN LAYOUTS, "4x6")

getDPI(q) ==
    LET v == GetProperty("DPI_SETTINGS", DOMAIN DPI_SETTINGS, q)
    IN  IF Truthy(v) THEN v
        ELSE GetProperty("DPI_SETTINGS", DOMAIN DPI_SETTINGS, "high")

\* Variant: the photo size is the pixel count of the high-quality preset.
calculateCanvasDimensions_fixedPhoto(layout, dpi) ==
    [width |-> Px(layout.width * dpi),
     height |-> Px(layout.height * dpi),
     photoSize |-> Px(PHOTO_SIZE_INCHES * DPI_SETTINGS["high"])]

calculateCanvasDimensions(layout, dpi) ==
    [width |-> Px(layout.width * dpi),
     height |-> Px(layout.height * dpi),
     photoSize |-> Px(PHOTO_SIZE_INCHES * dpi)]

---------------------------------------------------------------------------
(* CanvasRenderer *)

Draw(name, x, y, w, h, lw) ==
    [op |-> name, x |-> x, y |-> y, w |-> w, h |-> h, lw |-> lw]

\* Variant: gapSize is applied whether or not the gap is enabled.
gapSizePx_ignoresFlag(gapEnabled, gapSize, dpi) ==
    InchesTimesDpi(gapSize, dpi)

gapSizePx(gapEnabled, gapSize, dpi) ==
    IF gapEnabled THEN InchesTimesDpi(gapSize, dpi) ELSE 0

drawCuttingGuide(x, y, size) ==
    Draw("cuttingGuide", x, y, size, size, Px(1))

\* Variant: the border is stroked along the cell edge itself, not inset.
drawPhotoBorder_onCellEdge(x, y, size, dpi) ==
    LET lineWidth == Max(Half(SubPx), (dpi * SubPx) \div 150)
    IN  Draw("photoBorder", x, y, size, size, lineWidth)

drawPhotoBorder(x, y, size, dpi) ==
    LET lineWidth == Max(Half(SubPx), (dpi * SubPx) \div 150)
        borderOffset == Half(lineWidth)
    IN  Draw("photoBorder", x + borderOffset, y + borderOffset,
             size - lineWidth, size - lineWidth, lineWidth)

drawBackgroundGrid(canvasWidth, canvasHeight, dpi) ==
    Draw("backgroundGrid", 0, 0, canvasWidth, canvasHeight, Half(SubPx))

\* Variant: the photo is scaled down to leave room for the guide and border.
CellOps_shrinkForOutline(x, y, photoSizePx, dpi, gapEnabled, borderEnabled) ==
    LET inset == IF gapEnabled \/ borderEnabled THEN Px(1) ELSE 0
    IN  <<Draw("drawImage", x + inset, y + inset, photoSizePx - 2 * inset,
               photoSizePx - 2 * inset, 0)>>
        \o (IF gapEnabled THEN <<drawCuttingGuide(x, y, photoSizePx)>>
            ELSE <<>>)
        \o (IF borderEnabled THEN <<drawPhotoBorder(x, y, photoSizePx, dpi)>>
            ELSE <<>>)

\* Variant: the cutting guide is also stroked when only the border is enabled.
CellOps_guideWithBorder(x, y, photoSizePx, dpi, gapEnabled, borderEnabled) ==
    <<Draw("drawImage", x, y, photoSizePx, photoSizePx, 0)>>
    \o (IF gapEnabled \/ borderEnabled
        THEN <<drawCuttingGuide(x, y, photoSizePx)>> ELSE <<>>)
    \o (IF borderEnabled THEN <<drawPhotoBorder(x, y, photoSizePx, dpi)>>
        ELSE <<>>)

\* The body of every drawing loop: the photo, then its guide, then its border.
CellOps(x, y, photoSizePx, dpi, gapEnabled, borderEnabled) ==
    <<Draw("drawImage", x, y, photoSizePx, photoSizePx, 0)>>
    \o (IF gapEnabled THEN <<drawCuttingGuide(x, y, photoSizePx)>> ELSE <<>>)
    \o (IF borderEnabled THEN <<drawPhotoBorder(x, y, photoSizePx, dpi)>>
        ELSE <<>>)

RowOf(i, cols) == (i - 1) \div cols
ColOf(i, cols) == (i - 1) % cols

\* Variant: one gap is counted per column and per row.
StandardGrid_gapPerColumn(layout, dpi, canvasWidth, canvasHeight, photoSizePx, gapPx, gapEnabled, borderEnabled) ==
    LET totalPhotosWidth == (layout.cols * photoSizePx) + (layout.cols * gapPx)
        totalPhotosHeight == (layout.rows * photoSizePx) + (layout.rows * gapPx)
        startX == Half(canvasWidth - totalPhotosWidth)
        startY == Half(canvasHeight - totalPhotosHeight)
    IN  Concat([i \in 1..(layout.rows * layout.cols) |->
            CellOps(startX + (ColOf(i, layout.cols) * (photoSizePx + gapPx)),
                    startY + (RowOf(i, layout.cols) * (photoSizePx + gapPx)),
                    photoSizePx, dpi, gapEnabled, borderEnabled)])

\* Variant: the slack is not halved, so the grid sits against the far edges.
StandardGrid_notHalved(layout, dpi, canvasWidth, canvasHeight, photoSizePx, gapPx, gapEnabled, borderEnabled) ==
    LET totalPhotosWidth ==
            (layout.cols * photoSizePx) + ((layout.cols - 1) * gapPx)
        totalPhotosHeight ==
            (layout.rows * photoSizePx) + ((layout.rows - 1) * gapPx)
        startX == canvasWidth - totalPhotosWidth
        startY == canvasHeight - totalPhotosHeight
    IN  Concat([i \in 1..(layout.rows * layout.cols) |->
            CellOps(startX + (ColOf(i, layout.cols) * (photoSizePx + gapPx)),
                    startY + (RowOf(i, layout.cols) * (photoSizePx + gapPx)),
                    photoSizePx, dpi, gapEnabled, borderEnabled)])

\* Variant: the grid is centred in the size the canvas had before this call.
StandardGrid_staleCanvas(layout, dpi, canvasWidth, canvasHeight, photoSizePx, gapPx, gapEnabled, borderEnabled) ==
    LET totalPhotosWidth ==
            (layout.cols * photoSizePx) + ((layout.cols - 1) * gapPx)
        totalPhotosHeight ==
            (layout.rows * photoSizePx) + ((layout.rows - 1) * gapPx)
        startX == Half(canvas.width - totalPhotosWidth)
        startY == Half(canvas.height - totalPhotosHeight)
    IN  Concat([i \in 1..(layout.rows * layout.cols) |->
            CellOps(startX + (ColOf(i, layout.cols) * (photoSizePx + gapPx)),
                    startY + (RowOf(i, layout.cols) * (photoSizePx + gapPx)),
                    photoSizePx, dpi, gapEnabled, borderEnabled)])

StandardGrid(layout, dpi, canvasWidth, canvasHeight, photoSizePx, gapPx, gapEnabled, borderEnabled) ==
    LET totalPhotosWidth ==
            (layout.cols * photoSizePx) + ((layout.cols - 1) * gapPx)
        totalPhotosHeight ==
            (layout.rows * photoSizePx) + ((layout.rows - 1) * gapPx)
        startX == Half(canvasWidth - totalPhotosWidth)
        startY == Half(canvasHeight - totalPhotosHeight)
    IN  Concat([i \in 1..(layout.rows * layout.cols) |->
            CellOps(startX + (ColOf(i, layout.cols) * (photoSizePx + gapPx)),
                    startY + (RowOf(i, layout.cols) * (photoSizePx + gapPx)),
                    photoSizePx, dpi, gapEnabled, borderEnabled)])

\* Variant: the top margin is 0.25 in, the margin of the grid-aligned strategy.
VerticalApart_quarterTop(layout, dpi, photoSizePx, gapEnabled, borderEnabled) ==
    LET canvasWidth == Px(layout.width * dpi)
        canvasHeight == Px(layout.height * dpi)
        topMargin == InchesTimesDpi(25, dpi)
        middleGap == InchesTimesDpi(100, dpi)
        x == Half(canvasWidth - photoSizePx)
    IN  <<drawBackgroundGrid(canvasWidth, canvasHeight, dpi)>> \o
        Concat([i \in 1..layout.rows |->
            CellOps(x, topMargin + ((i - 1) * (photoSizePx + middleGap)),
                    photoSizePx, dpi, gapEnabled, borderEnabled)])

\* Variant: the measurement grid is drawn over the photos, after the loop.
VerticalApart_gridOnTop(layout, dpi, photoSizePx, gapEnabled, borderEnabled) ==
    LET canvasWidth == Px(layout.width * dpi)
        canvasHeight == Px(layout.height * dpi)
        topMargin == InchesTimesDpi(50, dpi)
        middleGap == InchesTimesDpi(100, dpi)
        x == Half(canvasWidth - photoSizePx)
    IN  Concat([i \in 1..layout.rows |->
            CellOps(x, topMargin + ((i - 1) * (photoSizePx + middleGap)),
                    photoSizePx, dpi, gapEnabled, borderEnabled)])
        \o <<drawBackgroundGrid(canvasWidth, canvasHeight, dpi)>>

VerticalApart(layout, dpi, photoSizePx, gapEnabled, borderEnabled) ==
    LET canvasWidth == Px(layout.width * dpi)
        canvasHeight == Px(layout.height * dpi)
        topMargin == InchesTimesDpi(50, dpi)
        middleGap == InchesTimesDpi(100, dpi)
        x == Half(canvasWidth - photoSizePx)
    IN  <<drawBackgroundGrid(canvasWidth, canvasHeight, dpi)>> \o
        Concat([i \in 1..layout.rows |->
            CellOps(x, topMargin + ((i - 1) * (photoSizePx + middleGap)),
                    photoSizePx, dpi, gapEnabled, borderEnabled)])

VerticalCentered(layout, dpi, photoSizePx, gapPx, gapEnabled, borderEnabled) ==
    LET canvasWidth == Px(layout.width * dpi)
        canvasHeight == Px(layout.height * dpi)
        totalPhotosWidth == (layout.cols * photoSizePx) + gapPx
        totalPhotosHeight == (layout.rows * photoSizePx) + gapPx
        startX == Half(canvasWidth - totalPhotosWidth)
        startY == Half(canvasHeight - totalPhotosHeight)
    IN  Concat([i \in 1..(layout.rows * layout.cols) |->
            CellOps(startX + (ColOf(i, layout.cols) * (photoSizePx + gapPx)),
                    startY + (RowOf(i, layout.cols) * (photoSizePx + gapPx)),
                    photoSizePx, dpi, gapEnabled, borderEnabled)])

\* Variant: the column gap is 1.0 in, the gap of the vertical-apart strategy.
GridAligned_wideColGap(layout, dpi, photoSizePx, gapEnabled, borderEnabled) ==
    LET canvasWidth == Px(layout.width * dpi)
        canvasHeight == Px(layout.height * dpi)
        leftMargin == InchesTimesDpi(25, dpi)
        topMargin == InchesTimesDpi(25, dpi)
        colGap == InchesTimesDpi(100, dpi)
        rowGap == InchesTimesDpi(25, dpi)
    IN  <<drawBackgroundGrid(canvasWidth, canvasHeight, dpi)>> \o
        Concat([i \in 1..(layout.rows * layout.cols) |->
            CellOps(leftMargin + (ColOf(i, layout.cols) * (photoSizePx + colGap)),
                    topMargin + (RowOf(i, layout.cols) * (photoSizePx + rowGap)),
                    photoSizePx, dpi, gapEnabled, borderEnabled)])

\* Variant: the row gap grows by gapSize 0.05 in when the guide is enabled.
GridAligned_guideWidensRows(layout, dpi, photoSizePx, gapEnabled, borderEnabled) ==
    LET canvasWidth == Px(layout.width * dpi)
        canvasHeight == Px(layout.height * dpi)
        leftMargin == InchesTimesDpi(25, dpi)
        topMargin == InchesTimesDpi(25, dpi)
        colGap == InchesTimesDpi(50, dpi)
        rowGap == InchesTimesDpi(IF gapEnabled THEN 30 ELSE 25, dpi)
    IN  <<drawBackgroundGrid(canvasWidth, canvasHeight, dpi)>> \o
        Concat([i \in 1..(layout.rows * layout.cols) |->
            CellOps(leftMargin + (ColOf(i, layout.cols) * (photoSizePx + colGap)),
                    topMargin + (RowOf(i, layout.cols) * (photoSizePx + rowGap)),
                    photoSizePx, dpi, gapEnabled, borderEnabled)])

GridAligned(layout, dpi, photoSizePx, gapEnabled, borderEnabled) ==
    LET canvasWidth == Px(layout.width * dpi)
        canvasHeight == Px(layout.height * dpi)
        leftMargin == InchesTimesDpi(25, dpi)
        topMargin == InchesTimesDpi(25, dpi)
        colGap == InchesTimesDpi(50, dpi)
        rowGap == InchesTimesDpi(25, dpi)
    IN  <<drawBackgroundGrid(canvasWidth, canvasHeight, dpi)>> \o
        Concat([i \in 1..(layout.rows * layout.cols) |->
            CellOps(leftMargin + (ColOf(i, layout.cols) * (photoSizePx + colGap)),
                    topMargin + (RowOf(i, layout.cols) * (photoSizePx + rowGap)),
                    photoSizePx, dpi, gapEnabled, borderEnabled)])

createCustomSpacingComposite(layout, dpi, photoSizePx, gapPx, gapEnabled, borderEnabled) ==
    IF layout.spacingType = "vertical-apart"
    THEN VerticalApart(layout, dpi, photoSizePx, gapEnabled, borderEnabled)
    ELSE IF layout.spacingType = "vertical-centered"
    THEN VerticalCentered(layout, dpi, photoSizePx, gapPx, gapEnabled,
                          borderEnabled)
    ELSE IF layout.spacingType = "grid-aligned"
    THEN GridAligned(layout, dpi, photoSizePx, gapEnabled, borderEnabled)
    ELSE <<>>

\* The drawing calls of createComposite(image, a.layout, a.dpi, options).
CompositeOps(a) ==
    LET dimensions == calculateCanvasDimensions(a.layout, a.dpi)
        gapPx == gapSizePx(a.gapEnabled, a.gapSize, a.dpi)
    IN  <<Draw("resize", 0, 0, dimensions.width, dimensions.height, 0),
          Draw("fillRect", 0, 0, dimensions.width, dimensions.height, 0)>> \o
        (IF a.layout.customSpacing
         THEN createCustomSpacingComposite(a.layout, a.dpi,
                  dimensions.photoSize, gapPx, a.gapEnabled, a.borderEnabled)
         ELSE StandardGrid(a.layout, a.dpi, dimensions.width,
                  dimensions.height, dimensions.photoSize, gapPx,
                  a.gapEnabled, a.borderEnabled))

---------------------------------------------------------------------------
(* Inputs *)

SpacingTypes ==
    {"undefined", "vertical-apart", "vertical-centered", "grid-aligned",
     "diagonal"}

KnownSpacingTypes == {"vertical-apart", "vertical-centered", "grid-aligned"}

Sheets == {<<LAYOUTS[k].width, LAYOUTS[k].height>> : k \in DOMAIN LAYOUTS}

\* The layouts the comments of createCustomSpacingComposite describe.
VerticalApartLayout ==
    [width |-> 4, height |-> 6, cols |-> 1, rows |-> 2, photos |-> 2,
     customSpacing |-> TRUE, spacingType |-> "vertical-apart"]

VerticalCenteredLayout ==
    [width |-> 4, height |-> 6, cols |-> 2, rows |-> 2, photos |-> 4,
     customSpacing |-> TRUE, spacingType |-> "vertical-centered"]

GridAlignedLayout ==
    [width |-> 5, height |-> 7, cols |-> 2, rows |-> 3, photos |-> 6,
     customSpacing |-> TRUE, spacingType |-> "grid-aligned"]

PresetLayouts == {LAYOUTS[k] : k \in DOMAIN LAYOUTS}

NamedLayouts ==
    PresetLayouts \cup
    {VerticalApartLayout, VerticalCenteredLayout, GridAlignedLayout}

\* Any layout object a caller may pass: photos is cols*rows or rows alone.
OtherLayouts ==
    {[width |-> s[1], height |-> s[2], cols |-> c, rows |-> r,
      photos |-> IF byRows THEN r ELSE c * r,
      customSpacing |-> cs, spacingType |-> st] :
        s \in Sheets, c \in 1..MaxCols, r \in 1..MaxRows,
        byRows \in BOOLEAN, cs \in BOOLEAN, st \in SpacingTypes}

LayoutInputs == NamedLayouts \cup OtherLayouts

\* 50 DPI is below the 75 DPI at which dpi / 150 reaches 0.5.
DpiInputs == {50} \cup {100 * k : k \in 1..MaxDpiStep}

\* gapSize in hundredths of an inch: 0, 0.05, 0.10, ...
GapSizeInputs == {5 * k : k \in 0..MaxGapStep}

Inputs ==
    [layout : LayoutInputs, dpi : DpiInputs, gapEnabled : BOOLEAN,
     gapSize : GapSizeInputs, borderEnabled : BOOLEAN]

\* Calls made in sequence on one renderer: a named layout, a DPI of
\* DPI_SETTINGS, and gapSize 0.05 as renderPhotoSheet passes it.
SeqInputs ==
    [layout : NamedLayouts, dpi : {DPI_SETTINGS[q] : q \in DOMAIN DPI_SETTINGS},
     gapEnabled : BOOLEAN, gapSize : {5}, borderEnabled : BOOLEAN]

KeyInputs ==
    {"4x6", "5x7", "8x10", "4X6", "a4", "", "high", "medium", "low", "HIGH"}
    \cup ObjectPrototypeKeys

NoRef == [set |-> FALSE]

NoResult == [tag |-> "none", obj |-> "", key |-> ""]

\* No options form has been constructed.
NoForm == [handler |-> "none"]

\* The attributes of a 2D context the overlay's strokes, fills and texts
\* depend on, with the values of a new context.  Colours, fonts and
\* globalAlpha are assigned immediately before every use and are left out.
FreshContext ==
    [textAlign |-> "start", lineDash |-> <<>>, lineWidth |-> 1 * OverlaySubPx,
     shadowColor |-> "rgba(0, 0, 0, 0)", shadowBlur |-> 0]

\* No render has happened yet with any pair of flags.
NoRenders == [flags \in BOOLEAN \X BOOLEAN |-> <<>>]

\* No GuidelinesManager has been constructed.
NoGuidelines ==
    /\ guide = [module |-> "none"]
    /\ overlayCtx = FreshContext
    /\ overlayOps = <<>>
    /\ firstRender = NoRenders

\* A part of the page that has not been constructed.
Absent == [kind |-> "absent"]

\* None of the page's other controllers has been constructed.
NoPage ==
    /\ app = Absent
    /\ crop = Absent
    /\ store = Absent
    /\ upload = Absent
    /\ editor = Absent
    /\ notif = Absent

---------------------------------------------------------------------------
(* State machine of one CanvasRenderer *)

\* The constructor leaves the canvas element at its size in the page (the
\* HTML default, 300 x 150) and draws nothing.
InitRenderer ==
    /\ canvas = [width |-> Px(300), height |-> Px(150)]
    /\ ops = <<>>
    /\ op = "constructor"
    /\ ref = NoRef

InitConfig ==
    /\ sizeKey = "4x6"
    /\ quality = "high"
    /\ layoutResult = NoResult
    /\ dpiResult = NoResult

Init ==
    /\ InitRenderer
    /\ InitConfig
    /\ args \in Inputs
    /\ form = NoForm
    /\ NoGuidelines
    /\ NoPage

\* createComposite(image, a.layout, a.dpi, options)
Compose(a) ==
    LET dimensions == calculateCanvasDimensions(a.layout, a.dpi)
    IN  /\ canvas' = [width |-> dimensions.width, height |-> dimensions.height]
        /\ ops' = CompositeOps(a)
        /\ op' = "createComposite"

CreateComposite ==
    /\ Compose(args)
    /\ UNCHANGED <<pageVars, formVars, guideVars, args, ref, sizeKey, quality, layoutResult, dpiResult>>

\* clear(); ref.other notes that an operation ran after the remembered call.
Clear ==
    /\ ops' = <<Draw("clearRect", 0, 0, canvas.width, canvas.height, 0)>>
    /\ op' = "clear"
    /\ ref' = IF ref.set THEN [ref EXCEPT !.other = TRUE] ELSE ref
    /\ UNCHANGED <<pageVars, formVars, guideVars, canvas, args, sizeKey, quality, layoutResult, dpiResult>>

Next == CreateComposite \/ Clear

Spec == Init /\ [][Next]_vars

---------------------------------------------------------------------------
(* Observations *)

Composed == op = "createComposite"

IsDrawImage(o) == o.op = "drawImage"

CellsOf(log) == SelectSeq(log, IsDrawImage)

Cells == CellsOf(ops)

Rects(cells) == [i \in 1..Len(cells) |->
                    <<cells[i].x, cells[i].y, cells[i].w, cells[i].h>>]

\* Canvas size and cell rectangles of the call now on the canvas.
Geometry ==
    [width |-> canvas.width, height |-> canvas.height, cells |-> Rects(Cells)]

\* Canvas size and cell rectangles createComposite produces for arguments a.
GeometryOf(a) ==
    LET log == CompositeOps(a)
    IN  [width |-> log[1].w, height |-> log[1].h,
         cells |-> Rects(CellsOf(log))]

Doubled(g) ==
    [width |-> 2 * g.width, height |-> 2 * g.height,
     cells |-> [i \in 1..Len(g.cells) |->
                  <<2 * g.cells[i][1], 2 * g.cells[i][2],
                    2 * g.cells[i][3], 2 * g.cells[i][4]>>]]

InsideCanvas(c) ==
    /\ 0 <= c.x
    /\ 0 <= c.y
    /\ c.x + c.w <= canvas.width
    /\ c.y + c.h <= canvas.height

AllInside == \A i \in 1..Len(Cells) : InsideCanvas(Cells[i])

---------------------------------------------------------------------------
(* A renderer used for a sequence of calls *)

InitSeq ==
    /\ InitRenderer
    /\ InitConfig
    /\ args \in SeqInputs
    /\ form = NoForm
    /\ NoGuidelines
    /\ NoPage

\* ref.other: an operation other than the remembered call ran since.
SeqCreateComposite ==
    \E a \in SeqInputs :
        /\ args' = a
        /\ Compose(a)
        /\ ref' = IF ref.set /\ a # ref.args
                  THEN [ref EXCEPT !.other = TRUE] ELSE ref
        /\ UNCHANGED <<pageVars, formVars, guideVars, sizeKey, quality, layoutResult, dpiResult>>

Remember ==
    /\ Composed
    /\ ~ref.set
    /\ ref' = [set |-> TRUE, args |-> args, geometry |-> Geometry,
               other |-> FALSE]
    /\ UNCHANGED <<pageVars, formVars, guideVars, canvas, ops, op, args, sizeKey, quality, layoutResult,
                   dpiResult>>

NextSeq == SeqCreateComposite \/ Clear \/ Remember

SpecSeq == InitSeq /\ [][NextSeq]_vars

---------------------------------------------------------------------------
(* The configuration lookups *)

\* The defaults of createComposite, for the preset of getLayout's fallback.
DefaultArgs ==
    [layout |-> LAYOUTS["4x6"], dpi |-> 300, gapEnabled |-> FALSE,
     gapSize |-> 5, borderEnabled |-> FALSE]

InitCfg ==
    /\ InitRenderer
    /\ args = DefaultArgs
    /\ form = NoForm
    /\ NoGuidelines
    /\ NoPage
    /\ sizeKey \in KeyInputs
    /\ quality \in KeyInputs
    /\ layoutResult = NoResult
    /\ dpiResult = NoResult

GetLayout ==
    /\ layoutResult' = getLayout(sizeKey)
    /\ UNCHANGED <<pageVars, formVars, guideVars, canvas, ops, op, args, ref, sizeKey, quality, dpiResult>>

GetDPI ==
    /\ dpiResult' = getDPI(quality)
    /\ UNCHANGED <<pageVars, formVars, guideVars, canvas, ops, op, args, ref, sizeKey, quality, layoutResult>>

NextCfg == GetLayout \/ GetDPI

SpecCfg == InitCfg /\ [][NextCfg]_vars

---------------------------------------------------------------------------
(* The options form: FormHandler, and the form code of PhotoSheetApp *)

PaperSizeOptions == DOMAIN LAYOUTS

QualityOptions == DOMAIN DPI_SETTINGS

\* Values of the cutting-guide select, "<spacing>-<border>".
CuttingGuideOptions == {"none-none", "none-thin", "small-none", "small-thin"}

SpacingOptions == {"none", "small"}

BorderOptions == {"none", "thin"}

\* value.split('-') on the values of the cutting-guide select
Split ==
    ("none-none" :> <<"none", "none">>) @@
    ("none-thin" :> <<"none", "thin">>) @@
    ("small-none" :> <<"small", "none">>) @@
    ("small-thin" :> <<"small", "thin">>)

NoOptions == [handler |-> "none"]

\* FormHandler.getOptions()
getOptions(f) ==
    LET parts == Split[f.cuttingGuide]
        spacing == parts[1]
        border == parts[2]
    IN  [layout |-> getLayout(f.paperSize), dpi |-> getDPI(f.quality),
         paperSize |-> f.paperSize, quality |-> f.quality,
         cuttingGuide |-> f.cuttingGuide, gapEnabled |-> (spacing = "small"),
         gapSize |-> 5, borderEnabled |-> (border = "thin")]

\* Variant: only the 4x6 sheet is treated as edge-to-edge.
updateCuttingGuideAvailability_only4x6(f) ==
    LET currentValue == f.cuttingGuide
        disableCuttingLines == f.paperSize = "4x6"
        disabled == {o \in CuttingGuideOptions :
                        Split[o][1] = "small" /\ disableCuttingLines}
        shouldResetValue == currentValue \in disabled
    IN  [f EXCEPT !.disabled = disabled,
                  !.cuttingGuide = IF shouldResetValue THEN "none-none"
                                   ELSE currentValue,
                  !.hint = disableCuttingLines /\ Split[currentValue][1] = "small"]

\* Variant: the spacing options are disabled but a selected one is kept.
updateCuttingGuideAvailability_keepsValue(f) ==
    LET currentValue == f.cuttingGuide
        disableCuttingLines == f.paperSize \in {"4x6", "8x10"}
        disabled == {o \in CuttingGuideOptions :
                        Split[o][1] = "small" /\ disableCuttingLines}
    IN  [f EXCEPT !.disabled = disabled,
                  !.hint = disableCuttingLines /\ Split[currentValue][1] = "small"]

\* FormHandler.updateCuttingGuideAvailability()
updateCuttingGuideAvailability(f) ==
    LET currentValue == f.cuttingGuide
        disableCuttingLines == f.paperSize \in {"4x6", "8x10"}
        disabled == {o \in CuttingGuideOptions :
                        Split[o][1] = "small" /\ disableCuttingLines}
        shouldResetValue == currentValue \in disabled
    IN  [f EXCEPT !.disabled = disabled,
                  !.cuttingGuide = IF shouldResetValue THEN "none-none"
                                   ELSE currentValue,
                  !.hint = disableCuttingLines /\ Split[currentValue][1] = "small"]

\* FormHandler.handleChange(): the callback receives getOptions().
handleChange(f, event) == [f EXCEPT !.options = getOptions(f), !.op = event]

\* PhotoSheetApp.updateSpacingAvailability()
updateSpacingAvailability(f) ==
    IF f.paperSize \in {"4x6", "8x10"}
    THEN [f EXCEPT !.spacing = "none", !.spacingDisabled = TRUE, !.hint = TRUE]
    ELSE [f EXCEPT !.spacingDisabled = FALSE, !.hint = FALSE]

\* The options PhotoSheetApp.createComposite reads from the selects.
createCompositeOptions(f) ==
    LET gapEnabled == f.spacing = "small"
    IN  [layout |-> GetProperty("LAYOUTS", DOMAIN LAYOUTS, f.paperSize),
         dpi |-> IF f.quality = "high" THEN 300 ELSE 200,
         paperSize |-> f.paperSize, gapEnabled |-> gapEnabled,
         gapSize |-> IF gapEnabled THEN 5 ELSE 0,
         borderEnabled |-> (f.border = "thin")]

\* PhotoSheetApp.handleOptionsChange(), with a photo uploaded
handleOptionsChange(f, event) ==
    [f EXCEPT !.options = createCompositeOptions(f), !.op = event]

\* The page as loaded, before the handler is constructed: the selects hold
\* whatever the markup selects, nothing is disabled.
FormHandlerPage(p, q, c) ==
    [handler |-> "FormHandler", paperSize |-> p, quality |-> q,
     cuttingGuide |-> c, disabled |-> {}, hint |-> FALSE,
     options |-> NoOptions, op |-> "constructor"]

PhotoSheetAppPage(p, q, s, b) ==
    [handler |-> "PhotoSheetApp", paperSize |-> p, quality |-> q,
     spacing |-> s, border |-> b, spacingDisabled |-> FALSE, hint |-> FALSE,
     options |-> NoOptions, op |-> "constructor"]

\* Both constructors end by applying the availability rule once.
InitForm ==
    /\ InitRenderer
    /\ InitConfig
    /\ args = DefaultArgs
    /\ NoGuidelines
    /\ NoPage
    /\ \/ \E p \in PaperSizeOptions, q \in QualityOptions,
            c \in CuttingGuideOptions :
             form = updateCuttingGuideAvailability(FormHandlerPage(p, q, c))
       \/ \E p \in PaperSizeOptions, q \in QualityOptions,
            s \in SpacingOptions, b \in BorderOptions :
             form = updateSpacingAvailability(PhotoSheetAppPage(p, q, s, b))

\* 'change' on the paper-size select
SelectPaperSize ==
    /\ \E p \in PaperSizeOptions \ {form.paperSize} :
         LET f == [form EXCEPT !.paperSize = p]
         IN  form' = IF form.handler = "FormHandler"
                     THEN handleChange(updateCuttingGuideAvailability(f),
                                       "paperSize")
                     ELSE handleOptionsChange(updateSpacingAvailability(f),
                                              "paperSize")
    /\ UNCHANGED <<pageVars, rendererVars, configVars, guideVars>>

\* 'change' on the quality select
SelectQuality ==
    /\ \E q \in QualityOptions \ {form.quality} :
         LET f == [form EXCEPT !.quality = q]
         IN  form' = IF form.handler = "FormHandler"
                     THEN handleChange(f, "quality")
                     ELSE handleOptionsChange(f, "quality")
    /\ UNCHANGED <<pageVars, rendererVars, configVars, guideVars>>

\* 'change' on the cutting-guide select: a disabled option cannot be picked.
SelectCuttingGuide ==
    /\ form.handler = "FormHandler"
    /\ \E c \in (CuttingGuideOptions \ form.disabled) \ {form.cuttingGuide} :
         form' = handleChange([form EXCEPT !.cuttingGuide = c], "cuttingGuide")
    /\ UNCHANGED <<pageVars, rendererVars, configVars, guideVars>>

\* 'change' on the spacing select: a disabled select cannot be operated.
SelectSpacing ==
    /\ form.handler = "PhotoSheetApp"
    /\ ~form.spacingDisabled
    /\ \E s \in SpacingOptions \ {form.spacing} :
         form' = handleOptionsChange([form EXCEPT !.spacing = s], "spacing")
    /\ UNCHANGED <<pageVars, rendererVars, configVars, guideVars>>

\* 'change' on the border select
SelectBorder ==
    /\ form.handler = "PhotoSheetApp"
    /\ \E b \in BorderOptions \ {form.border} :
         form' = handleOptionsChange([form EXCEPT !.border = b], "border")
    /\ UNCHANGED <<pageVars, rendererVars, configVars, guideVars>>

NextForm ==
    \/ SelectPaperSize
    \/ SelectQuality
    \/ SelectCuttingGuide
    \/ SelectSpacing
    \/ SelectBorder

SpecForm == InitForm /\ [][NextForm]_vars

\* The options the form yields in the current state.
CurrentOptions ==
    IF form.handler = "FormHandler" THEN getOptions(form)
    ELSE createCompositeOptions(form)

EdgeToEdge(paperSize) == paperSize \in {"4x6", "8x10"}

\* C11: in every state of the options form reached by paper-size, quality
\* and cutting-guide selections of enabled options, when the selected paper
\* size is 4x6 or 8x10 the options have gapEnabled = false, both the options
\* the form yields now and the options last handed to the callback.
C11_NoGapOnEdgeToEdge ==
    (form # NoForm /\ EdgeToEdge(form.paperSize)) =>
        /\ ~CurrentOptions.gapEnabled
        /\ form.options # NoOptions =>
             /\ form.options.paperSize = form.paperSize
             /\ ~form.options.gapEnabled

\* The guide was selected on 5x7 and the sheet then changed to 8x10.
C11_Witness ==
    /\ form.handler = "FormHandler"
    /\ form.paperSize = "8x10"
    /\ form.op = "paperSize"
    /\ form.hint
    /\ form.cuttingGuide = "none-none"
    /\ form.disabled = {"small-none", "small-thin"}
    /\ form.options # NoOptions
    /\ ~form.options.gapEnabled

\* On 5x7 the guide can be on.
GapOn5x7 ==
    /\ form # NoForm
    /\ form.paperSize = "5x7"
    /\ form.options # NoOptions
    /\ form.options.gapEnabled

---------------------------------------------------------------------------

(* The guide overlay: GuidelinesManager *)

Ox(n) == n * OverlaySubPx

\* canvasHeight * fraction, the fraction in ten-thousandths (0.6875 = 6875)
Fraction(length, tenThousandths) == length * tenThousandths

\* Calls on this.ctx, in program order.
SetAttr(attr, value) == [cmd |-> "set", attr |-> attr, value |-> value]

Save == [cmd |-> "save"]

Restore == [cmd |-> "restore"]

\* A drawing call: kind is clearRect, fill, stroke or fillText; what is the
\* path or the text; x, y, a, b are the centre and radii of an ellipse, the
\* two end points of a line, the corner and size of a rectangle, or the
\* anchor of a text.
DrawCall(kind, what, x, y, a, b) ==
    [cmd |-> "draw", kind |-> kind, what |-> what, x |-> x, y |-> y,
     a |-> a, b |-> b]

\* The CSS colour a context stores for an assigned colour string.
ParseColor(value) ==
    IF value = "transparent" THEN "rgba(0, 0, 0, 0)" ELSE value

SetShadowColor(value) == SetAttr("shadowColor", ParseColor(value))

StrokeEllipse(x, y, rx, ry) == DrawCall("stroke", "ellipse", x, y, rx, ry)

StrokeLine(x1, y1, x2, y2) == DrawCall("stroke", "line", x1, y1, x2, y2)

FillText(text, x, y) == DrawCall("fillText", text, x, y, 0, 0)

\* The drawing call as it is painted: with the context attributes that
\* apply to its kind (strokes: line width, dash, shadow; fills: shadow;
\* texts: alignment, shadow; clearRect: none).
Painted(c, ctx) ==
    [kind |-> c.kind, what |-> c.what, x |-> c.x, y |-> c.y, a |-> c.a,
     b |-> c.b,
     textAlign |-> IF c.kind = "fillText" THEN ctx.textAlign ELSE "",
     lineDash |-> IF c.kind = "stroke" THEN ctx.lineDash ELSE <<>>,
     lineWidth |-> IF c.kind = "stroke" THEN ctx.lineWidth ELSE 0,
     shadowColor |-> IF c.kind = "clearRect" THEN "" ELSE ctx.shadowColor,
     shadowBlur |-> IF c.kind = "clearRect" THEN 0 ELSE ctx.shadowBlur]

\* One call on the context: the context state, the save() stack and the
\* painted drawing calls after it.
Step(c, st) ==
    CASE c.cmd = "set" -> [st EXCEPT !.ctx[c.attr] = c.value]
      [] c.cmd = "save" -> [st EXCEPT !.stack = <<st.ctx>> \o st.stack]
      [] c.cmd = "restore" ->
           IF st.stack = <<>> THEN st
           ELSE [st EXCEPT !.ctx = Head(st.stack), !.stack = Tail(st.stack)]
      [] c.cmd = "draw" -> [st EXCEPT !.log = Append(st.log, Painted(c, st.ctx))]

\* The calls cmds[lo..hi] in order, the first half and then the second.
\* The state reached by the first half is computed (its log has a length)
\* before the second half starts from it.
RECURSIVE RunRange(_, _, _, _)
RunRange(cmds, lo, hi, st) ==
    IF lo > hi THEN st
    ELSE IF lo = hi THEN Step(cmds[lo], st)
    ELSE LET mid == (lo + hi) \div 2
             half == RunRange(cmds, lo, mid, st)
         IN  IF Len(half.log) >= 0 THEN RunRange(cmds, mid + 1, hi, half)
             ELSE half

\* Running the calls from context state ctx: the state left behind and the
\* painted drawing calls.
Run(cmds, ctx) ==
    RunRange(cmds, 1, Len(cmds), [ctx |-> ctx, stack |-> <<>>, log |-> <<>>])

drawFaceOvals(centerX, centerY, minRadiusX, minRadiusY, idealRadiusX, idealRadiusY, maxRadiusX, maxRadiusY) ==
    <<Save,
      DrawCall("fill", "ellipse", centerX, centerY, maxRadiusX, maxRadiusY),
      Restore,
      SetAttr("lineWidth", Ox(2)),
      SetAttr("lineDash", <<8, 8>>),
      SetShadowColor("rgba(0, 0, 0, 0.5)"),
      SetAttr("shadowBlur", 2),
      StrokeEllipse(centerX, centerY, maxRadiusX, maxRadiusY),
      SetAttr("lineWidth", Ox(2)),
      SetAttr("lineDash", <<8, 8>>),
      StrokeEllipse(centerX, centerY, minRadiusX, minRadiusY),
      SetAttr("lineWidth", Ox(3)),
      SetAttr("lineDash", <<12, 4>>),
      SetShadowColor("rgba(0, 0, 0, 0.6)"),
      SetAttr("shadowBlur", 3),
      StrokeEllipse(centerX, centerY, idealRadiusX, idealRadiusY)>>

\* A tick mark 35 px either side of centerX at height y, and its label.
TickAndLabel(centerX, y, label) ==
    <<StrokeLine(centerX - Ox(35), y, centerX + Ox(35), y),
      FillText(label, centerX + Ox(40), y + Ox(4))>>

\* The range label is placed at (canvasWidth - textWidth) / 2, textWidth
\* being measured by the user agent: x is the midpoint of the text as it
\* lies when left-aligned.
RangeLabel(g, label) ==
    <<SetShadowColor("rgba(0, 0, 0, 0.9)"),
      SetAttr("shadowBlur", 4),
      FillText(label, Half(Ox(g.canvasWidth)), Ox(g.canvasHeight - 20)),
      SetAttr("shadowBlur", 0),
      SetShadowColor("transparent")>>

drawFaceLabels(g, centerX, centerY, minRadiusY, idealRadiusY, maxRadiusY, minLabel, idealLabel, maxLabel, rangeLabel) ==
    <<SetAttr("lineDash", <<>>),
      SetShadowColor("rgba(0, 0, 0, 0.8)"),
      SetAttr("shadowBlur", 3),
      SetAttr("lineWidth", Ox(1))>>
    \o TickAndLabel(centerX, centerY - maxRadiusY, maxLabel)
    \o TickAndLabel(centerX, centerY - idealRadiusY, idealLabel)
    \o TickAndLabel(centerX, centerY - minRadiusY, minLabel)
    \o TickAndLabel(centerX, centerY + idealRadiusY, "Chin")
    \o RangeLabel(g, rangeLabel)

\* Variant: the digital table is chosen by the canvas width alone.
isDigitalFormat_widthOnly(g) == g.canvasWidth = 630

isDigitalFormat(g) == g.canvasWidth = 630 /\ g.canvasHeight = 810

\* The three ovals of a head-height table, radiusX = 0.72 * radiusY.
Radii(g, minHeadHeight, idealHeadHeight, maxHeadHeight) ==
    LET minRadiusY == Half(Fraction(g.canvasHeight, minHeadHeight))
        idealRadiusY == Half(Fraction(g.canvasHeight, idealHeadHeight))
        maxRadiusY == Half(Fraction(g.canvasHeight, maxHeadHeight))
    IN  [minRadiusY |-> minRadiusY, idealRadiusY |-> idealRadiusY,
         maxRadiusY |-> maxRadiusY,
         minRadiusX |-> (minRadiusY * 72) \div 100,
         idealRadiusX |-> (idealRadiusY * 72) \div 100,
         maxRadiusX |-> (maxRadiusY * 72) \div 100]

\* idealCenterY of the 2x2 table: the eyes at 37.5 % of the height, the
\* crown a third of the ideal head height above them.
IdealCenterY2x2(g, idealHeadHeight) ==
    LET eyesY == Fraction(g.canvasHeight, 3750)
        eyesToCrownPercent == idealHeadHeight \div 3
        idealCrownY == eyesY - Fraction(g.canvasHeight, eyesToCrownPercent)
    IN  idealCrownY + Half(Fraction(g.canvasHeight, idealHeadHeight))

render2x2Guide(g) ==
    LET centerX == Half(Ox(g.canvasWidth))
        idealCenterY == IdealCenterY2x2(g, 6000)
        r == Radii(g, 5000, 6000, 6875)
    IN  drawFaceOvals(centerX, idealCenterY, r.minRadiusX, r.minRadiusY,
                      r.idealRadiusX, r.idealRadiusY, r.maxRadiusX,
                      r.maxRadiusY)
        \o drawFaceLabels(g, centerX, idealCenterY, r.minRadiusY,
                          r.idealRadiusY, r.maxRadiusY, "Min 1.0 in",
                          "Ideal 1.2 in", "Max 1 3/8 in", "1.0 in - 1.375 in")

renderDigitalFormatGuide(g) ==
    LET centerX == Half(Ox(g.canvasWidth))
        idealCrownY == Fraction(g.canvasHeight, 1000)
        idealCenterY == idealCrownY + Half(Fraction(g.canvasHeight, 7500))
        r == Radii(g, 7000, 7500, 8000)
    IN  drawFaceOvals(centerX, idealCenterY, r.minRadiusX, r.minRadiusY,
                      r.idealRadiusX, r.idealRadiusY, r.maxRadiusX,
                      r.maxRadiusY)
        \o drawFaceLabels(g, centerX, idealCenterY, r.minRadiusY,
                          r.idealRadiusY, r.maxRadiusY, "Min 70%",
                          "Ideal 75%", "Max 80%", "Acceptable Range: 70-80%")

\* The face guide of guidelines-manager.js, written out inside render():
\* the ovals, the eye line, then the labels with the eye-line label.
renderInlineFaceGuide(g) ==
    LET centerX == Half(Ox(g.canvasWidth))
        eyesY == Fraction(g.canvasHeight, 3750)
        idealCenterY == IdealCenterY2x2(g, 6000)
        r == Radii(g, 5000, 6000, 6875)
    IN  drawFaceOvals(idealCenterY, idealCenterY, r.minRadiusX, r.minRadiusY,
                      r.idealRadiusX, r.idealRadiusY, r.maxRadiusX,
                      r.maxRadiusY)
        \o <<SetAttr("lineDash", <<4, 4>>),
             SetAttr("lineWidth", Half(Ox(3))),
             SetAttr("shadowBlur", 2),
             StrokeLine(centerX - r.maxRadiusX - Ox(40), eyesY,
                        centerX + r.maxRadiusX + Ox(40), eyesY),
             SetAttr("lineDash", <<>>),
             SetShadowColor("rgba(0, 0, 0, 0.8)"),
             SetAttr("shadowBlur", 3),
             SetAttr("lineWidth", Ox(1))>>
        \o TickAndLabel(centerX, idealCenterY - r.maxRadiusY, "Max 1 3/8 in")
        \o TickAndLabel(centerX, idealCenterY - r.idealRadiusY, "Ideal 1.2 in")
        \o TickAndLabel(centerX, idealCenterY - r.minRadiusY, "Min 1.0 in")
        \o <<FillText("Eye Line", centerX - r.maxRadiusX - Ox(60),
                      eyesY + Ox(4))>>
        \o TickAndLabel(centerX, idealCenterY + r.idealRadiusY, "Chin")
        \o RangeLabel(g, "Acceptable Range: 1.0 in - 1.375 in")

\* Where the two versions of the grid differ: shadow and offsets of the
\* scale labels and of the title.
GridStyle(module) ==
    IF module = "part_009"
    THEN [labelShadow |-> "rgba(0, 0, 0, 0.9)", labelBlur |-> 4,
          topDx |-> 8, topY |-> 20, leftX |-> 12, leftDy |-> 8,
          titleBlur |-> 5, titleDy |-> 15]
    ELSE [labelShadow |-> "rgba(0, 0, 0, 0.8)", labelBlur |-> 3,
          topDx |-> 5, topY |-> 15, leftX |-> 8, leftDy |-> 5,
          titleBlur |-> 4, titleDy |-> 12]

\* for (let v = 0; v <= limit; v += interval)
Steps(limit, interval) == [i \in 1..((limit \div interval) + 1) |-> (i - 1) * interval]

VerticalLines(xs, g) ==
    [i \in 1..Len(xs) |-> StrokeLine(Ox(xs[i]), 0, Ox(xs[i]), Ox(g.canvasHeight))]

HorizontalLines(ys, g) ==
    [i \in 1..Len(ys) |-> StrokeLine(0, Ox(ys[i]), Ox(g.canvasWidth), Ox(ys[i]))]

\* (v / 300).toFixed(1) followed by the inch sign, for a multiple of 300
InchLabel(v) == ToString(v \div 300) \o ".0 in"

renderGrid(g) ==
    LET gridInterval == 75
        majorInterval == gridInterval * 4
        style == GridStyle(g.module)
        MinorX(x) == ~(2 * x = g.canvasWidth \/ x % majorInterval = 0)
        MinorY(y) == ~(2 * y = g.canvasHeight \/ y % majorInterval = 0)
        MajorX(x) == 2 * x # g.canvasWidth
        MajorY(y) == 2 * y # g.canvasHeight
        majorXs == Steps(g.canvasWidth, majorInterval)
        majorYs == Steps(g.canvasHeight, majorInterval)
    IN  <<SetAttr("lineWidth", Ox(1)),
          SetAttr("lineDash", <<4, 4>>),
          SetShadowColor("rgba(0, 0, 0, 0.5)"),
          SetAttr("shadowBlur", 2)>>
        \o VerticalLines(SelectSeq(Steps(g.canvasWidth, gridInterval), MinorX), g)
        \o HorizontalLines(SelectSeq(Steps(g.canvasHeight, gridInterval), MinorY), g)
        \o <<SetAttr("lineWidth", Half(Ox(3))),
             SetAttr("lineDash", <<6, 3>>),
             SetAttr("shadowBlur", 3)>>
        \o VerticalLines(SelectSeq(majorXs, MajorX), g)
        \o HorizontalLines(SelectSeq(majorYs, MajorY), g)
        \o <<SetAttr("lineWidth", Half(Ox(5))),
             SetAttr("lineDash", <<8, 4>>),
             SetShadowColor("rgba(0, 0, 0, 0.8)"),
             SetAttr("shadowBlur", 4),
             StrokeLine(Half(Ox(g.canvasWidth)), 0,
                        Half(Ox(g.canvasWidth)), Ox(g.canvasHeight)),
             StrokeLine(0, Half(Ox(g.canvasHeight)),
                        Ox(g.canvasWidth), Half(Ox(g.canvasHeight))),
             SetAttr("lineDash", <<>>),
             SetAttr("shadowBlur", 0),
             SetAttr("textAlign", "left"),
             SetShadowColor(style.labelShadow),
             SetAttr("shadowBlur", style.labelBlur)>>
        \o [i \in 1..Len(majorXs) |->
              FillText(InchLabel(majorXs[i]), Ox(majorXs[i] + style.topDx),
                       Ox(style.topY))]
        \o Concat([i \in 1..Len(majorYs) |->
              <<Save,
                FillText("rotated " \o InchLabel(majorYs[i]), Ox(style.leftX),
                         Ox(majorYs[i] - style.leftDy)),
                Restore>>])
        \o <<SetAttr("textAlign", "center"),
             SetAttr("shadowBlur", style.titleBlur),
             FillText("Grid with Scale", Half(Ox(g.canvasWidth)),
                      Ox(g.canvasHeight - style.titleDy)),
             SetAttr("shadowBlur", 0),
             SetShadowColor("transparent")>>

clearOverlay(g) ==
    <<DrawCall("clearRect", "rect", 0, 0, Ox(g.canvasWidth), Ox(g.canvasHeight))>>

renderFaceGuide(g) ==
    IF g.module = "part_009"
    THEN IF isDigitalFormat(g) THEN renderDigitalFormatGuide(g)
         ELSE render2x2Guide(g)
    ELSE renderInlineFaceGuide(g)

\* GuidelinesManager.render(): the calls it makes on the context
render(g) ==
    clearOverlay(g)
    \o (IF g.faceGuideVisible THEN renderFaceGuide(g) ELSE <<>>)
    \o (IF g.gridVisible THEN renderGrid(g) ELSE <<>>)

\* Overlay canvas sizes: the editor's two formats and other sizes.
CanvasSizes ==
    {<<600, 600>>, <<630, 810>>, <<810, 630>>, <<630, 600>>, <<300, 300>>}

\* new GuidelinesManager(overlayCanvas, options): part_009 takes canvasWidth
\* and canvasHeight, guidelines-manager.js one canvasSize for both.
Constructed(module, width, height) ==
    [module |-> module, canvasWidth |-> width, canvasHeight |-> height,
     faceGuideVisible |-> TRUE, gridVisible |-> FALSE, op |-> "constructor"]

InitGuide ==
    /\ InitRenderer
    /\ InitConfig
    /\ args = DefaultArgs
    /\ form = NoForm
    /\ NoPage
    /\ \/ \E size \in CanvasSizes :
            guide = Constructed("part_009", size[1], size[2])
       \/ \E size \in CanvasSizes :
            guide = Constructed("guidelines-manager.js", size[1], size[1])
    /\ overlayCtx = FreshContext
    /\ overlayOps = <<>>
    /\ firstRender = NoRenders

FlagsOf(g) == <<g.faceGuideVisible, g.gridVisible>>

\* render() on manager state g, entered through the call named by event
Paint(g, event) ==
    LET result == Run(render(g), overlayCtx)
    IN  /\ guide' = [g EXCEPT !.op = event]
        /\ overlayCtx' = result.ctx
        /\ overlayOps' = result.log
        /\ firstRender' = IF firstRender[FlagsOf(g)] = <<>>
                          THEN [firstRender EXCEPT ![FlagsOf(g)] = result.log]
                          ELSE firstRender

ToggleFaceGuide ==
    /\ \E visible \in BOOLEAN :
         Paint([guide EXCEPT !.faceGuideVisible = visible], "toggleFaceGuide")
    /\ UNCHANGED <<pageVars, rendererVars, configVars, formVars>>

ToggleGrid ==
    /\ \E visible \in BOOLEAN :
         Paint([guide EXCEPT !.gridVisible = visible], "toggleGrid")
    /\ UNCHANGED <<pageVars, rendererVars, configVars, formVars>>

Render ==
    /\ Paint(guide, "render")
    /\ UNCHANGED <<pageVars, rendererVars, configVars, formVars>>

ClearGuidelines ==
    LET result == Run(clearOverlay(guide), overlayCtx)
    IN  /\ guide' = [guide EXCEPT !.op = "clear"]
        /\ overlayCtx' = result.ctx
        /\ overlayOps' = result.log
        /\ UNCHANGED <<pageVars, firstRender, rendererVars, configVars, formVars>>

NextGuide == ToggleFaceGuide \/ ToggleGrid \/ Render \/ ClearGuidelines

SpecGuide == InitGuide /\ [][NextGuide]_vars

\* The latest GuidelinesManager call painted the overlay.
Rendered == guide.op \in {"render", "toggleFaceGuide", "toggleGrid"}

IsEllipse(o) == o.what = "ellipse"

\* The crown and chin tick marks: horizontal strokes 70 px long.
IsTick(o) == o.kind = "stroke" /\ o.what = "line" /\ o.y = o.b /\ o.a - o.x = Ox(70)

IsText(o) == o.kind = "fillText"

\* The shaded zone, then the max, min and ideal ovals.
Ovals == SelectSeq(overlayOps, IsEllipse)

\* The max crown, ideal crown, min crown and chin tick marks.
Ticks == SelectSeq(overlayOps, IsTick)

\* C18: the drawing calls of a render, with the text alignment, line dash,
\* shadow and line width each is painted with, equal those of the first
\* render with the same flags and canvas size, whatever toggleFaceGuide,
\* toggleGrid, render and clear calls came before; and every render starts
\* by clearing the whole overlay.
C18_RenderIdempotent ==
    Rendered =>
        /\ overlayOps[1] = Painted(clearOverlay(guide)[1], FreshContext)
        /\ overlayOps = firstRender[FlagsOf(guide)]

\* C19: in every face-guide render the shaded zone and the min, ideal and
\* max ovals have one common centre, whose X is the horizontal centre of
\* the canvas, the X the crown and chin tick marks are centred on, and
\* whose Y is the centre Y of the ideal oval; the radii differ, min < ideal
\* < max on both axes, so the ovals do not share a chin line.
C19_OvalsShareCentre ==
    (Rendered /\ guide.faceGuideVisible) =>
        /\ Len(Ovals) = 4
        /\ Len(Ticks) = 4
        /\ \A i \in 1..4 :
             /\ 2 * Ovals[i].x = Ox(guide.canvasWidth)
             /\ \A j \in 1..4 : 2 * Ovals[i].x = Ticks[j].x + Ticks[j].a
             /\ Ovals[i].y = Ovals[4].y
        /\ Ovals[1].a = Ovals[2].a
        /\ Ovals[1].b = Ovals[2].b
        /\ Ovals[3].a < Ovals[4].a
        /\ Ovals[4].a < Ovals[2].a
        /\ Ovals[3].b < Ovals[4].b
        /\ Ovals[4].b < Ovals[2].b
        /\ Ovals[3].y + Ovals[3].b < Ovals[4].y + Ovals[4].b
        /\ Ovals[4].y + Ovals[4].b < Ovals[2].y + Ovals[2].b

\* C19 for the GuidelinesManager of part_009 alone.
C19_OvalsShareCentrePart009 == guide.module = "part_009" => C19_OvalsShareCentre

\* The head-height table in use, in ten-thousandths of the canvas height.
DigitalTable == [min |-> 7000, ideal |-> 7500, max |-> 8000]

TwoByTwoTable == [min |-> 5000, ideal |-> 6000, max |-> 6875]

\* C20: the overlay uses the digital table (70/75/80 % of the canvas height,
\* ideal crown at 10 % of the height) exactly when the canvas is 630x810 and
\* the 2x2 table (50/60/68.75 %) otherwise; radiusY = canvasHeight *
\* headHeight / 2 and radiusX = 0.72 * radiusY; on 600x600 the ideal radiusY
\* is 180 and radiusX 129.6, on 630x810 the ideal radiusY is 303.75 and the
\* ideal crown is at Y 81.
C20_HeadHeightTable ==
    (Rendered /\ guide.faceGuideVisible) =>
        LET table == IF guide.canvasWidth = 630 /\ guide.canvasHeight = 810
                     THEN DigitalTable ELSE TwoByTwoTable
            max == Ovals[2]
            min == Ovals[3]
            ideal == Ovals[4]
        IN  /\ Len(Ovals) = 4
            /\ Len(Ticks) = 4
            /\ 2 * min.b = guide.canvasHeight * table.min
            /\ 2 * ideal.b = guide.canvasHeight * table.ideal
            /\ 2 * max.b = guide.canvasHeight * table.max
            /\ \A i \in 1..4 : 100 * Ovals[i].a = 72 * Ovals[i].b
            /\ table = DigitalTable =>
                 10 * Ticks[2].y = Ox(guide.canvasHeight)
            /\ (guide.canvasWidth = 600 /\ guide.canvasHeight = 600) =>
                 /\ ideal.b = Ox(180)
                 /\ 10 * ideal.a = Ox(1296)
            /\ (guide.canvasWidth = 630 /\ guide.canvasHeight = 810) =>
                 /\ 100 * ideal.b = Ox(30375)
                 /\ Ticks[2].y = Ox(81)

C20_Witness ==
    /\ Rendered
    /\ guide.module = "part_009"
    /\ guide.faceGuideVisible
    /\ guide.gridVisible
    /\ guide.canvasWidth = 630
    /\ guide.canvasHeight = 810
    /\ Len(Ovals) = 4
    /\ 100 * Ovals[4].b = Ox(30375)
    /\ 10 * Ovals[4].a = Ox(2187)
    /\ Ticks[2].y = Ox(81)

---------------------------------------------------------------------------

---------------------------------------------------------------------------
(* The index page end to end: FormHandler options rendered by CanvasRenderer *)

\* The value of a looked-up property of LAYOUTS or DPI_SETTINGS.
OptionValue(v) ==
    IF v.obj = "LAYOUTS" THEN LAYOUTS[v.key] ELSE DPI_SETTINGS[v.key]

\* The arguments renderPhotoSheet passes to createComposite.
SheetArgs(f) ==
    LET options == getOptions(f)
    IN  [layout |-> OptionValue(options.layout), dpi |-> OptionValue(options.dpi),
         gapEnabled |-> options.gapEnabled, gapSize |-> options.gapSize,
         borderEnabled |-> options.borderEnabled]

\* new PhotoSheetApp() with its FormHandler, on any selection of the markup.
InitSheet ==
    /\ InitRenderer
    /\ InitConfig
    /\ args = DefaultArgs
    /\ NoGuidelines
    /\ NoPage
    /\ \E p \in PaperSizeOptions, q \in QualityOptions, c \in CuttingGuideOptions :
          form = updateCuttingGuideAvailability(FormHandlerPage(p, q, c))

\* renderPhotoSheet() with a photo loaded.
RenderPhotoSheet ==
    /\ args' = SheetArgs(form)
    /\ Compose(SheetArgs(form))
    /\ UNCHANGED <<pageVars, formVars, guideVars, configVars, ref>>

NextSheet ==
    \/ SelectPaperSize
    \/ SelectQuality
    \/ SelectCuttingGuide
    \/ RenderPhotoSheet

SpecSheet == InitSheet /\ [][NextSheet]_vars

\* C22: whatever paper size, quality and cutting guide have been selected
\* through the FormHandler, every cell of the sheet rendered from the
\* form's options lies inside the canvas.
C22_FormOptionsKeepCellsInside ==
    (form # NoForm /\ Composed) =>
        \A i \in 1..Len(Cells) :
            /\ 0 <= Cells[i].x
            /\ 0 <= Cells[i].y
            /\ Cells[i].x + Cells[i].w <= canvas.width
            /\ Cells[i].y + Cells[i].h <= canvas.height

\* The guide was selected on 5x7, the sheet changed to 8x10, which reset
\* the guide, and the 8x10 sheet was rendered with its 20 cells.
C22_Witness ==
    /\ form # NoForm
    /\ form.op = "paperSize"
    /\ form.paperSize = "8x10"
    /\ form.hint
    /\ Composed
    /\ args = SheetArgs(form)
    /\ Len(Cells) = 20

\* A 5x7 sheet rendered with the cutting guide on.
GapRenderedOn5x7 ==
    /\ form # NoForm
    /\ Composed
    /\ args.gapEnabled
    /\ args.layout = LAYOUTS["5x7"]

---------------------------------------------------------------------------
(* PhotoSheetApp: the debounced options callback, photo loading and reset *)

\* Bounds of the page model: the clock stops after MaxTicks ticks, and at
\* most MaxCalls option changes and MaxLoads photo loads happen.
MaxTicks == 4
MaxCalls == 3
MaxLoads == 2

\* debounce(() => this.handleOptionsChange(), 100): the wait, in ms.
DebounceWait == 100

\* Step of the clock, in ms: calls can follow each other by 0, 50 (less
\* than the wait), 100 (the wait) or more.
TickMs == DebounceWait \div 2

\* clearTimeout(id): the timer with that id, if still pending, is dropped.
clearTimeout(timers, id) == {t \in timers : t.id # id}

\* A debounce whose returned function does not cancel the pending timer.
executedFunction_noClear(a, callArgs) ==
    [a EXCEPT !.timers = @ \cup {[id |-> a.nextId, due |-> a.now + DebounceWait, args |-> callArgs,
                                        call |-> Len(a.calls) + 1]},
              !.timeout = a.nextId,
              !.nextId = @ + 1,
              !.calls = Append(@, [t |-> a.now, args |-> callArgs])]

\* The function returned by debounce, called with callArgs at a.now:
\* clearTimeout(timeout); timeout = setTimeout(later, wait).  a.calls is
\* the history of the calls; a timer remembers which call created it.
executedFunction(a, callArgs) ==
    [a EXCEPT !.timers = clearTimeout(@, a.timeout)
                             \cup {[id |-> a.nextId, due |-> a.now + DebounceWait, args |-> callArgs,
                                        call |-> Len(a.calls) + 1]},
              !.timeout = a.nextId,
              !.nextId = @ + 1,
              !.calls = Append(@, [t |-> a.now, args |-> callArgs])]

\* renderPhotoSheet(): createComposite unless no image is loaded.
\* a.composites is the history of createComposite calls, each with what
\* caused it and whether it came after a reset with no photo loaded since.
renderPhotoSheet(a, cause) ==
    IF a.uploadedImage = "null" THEN a
    ELSE [a EXCEPT !.composites =
              Append(@, [cause |-> cause, image |-> a.uploadedImage,
                         afterReset |-> a.awaitingPhoto])]

\* handleOptionsChange(): nothing without an image, else updateStats and
\* renderPhotoSheet.
PhotoSheetApp_handleOptionsChange(a) ==
    IF a.uploadedImage = "null" THEN a ELSE renderPhotoSheet(a, "options")

\* later(): clearTimeout(timeout); func(...args), for the timer that fires.
\* a.invoked is the history of the invocations of func.
later(a, timer) ==
    LET cleared == [a EXCEPT !.timers = clearTimeout(@ \ {timer}, a.timeout),
                             !.invoked = Append(@, [t |-> a.now, args |-> timer.args,
                                                   call |-> timer.call,
                                                   image |-> a.uploadedImage])]
    IN  PhotoSheetApp_handleOptionsChange(cleared)

\* onPhotoLoaded(image, ...), and the continuation of handleDemo.
onPhotoLoaded(a, image) ==
    renderPhotoSheet([a EXCEPT !.uploadedImage = image, !.awaitingPhoto = FALSE,
                               !.loads = @ + 1], "loaded")

\* A reset that forgets to drop the image.
handleReset_keepsImage(a) == [a EXCEPT !.awaitingPhoto = TRUE]

\* handleReset(): uploadedImage = null; canvasRenderer.clear().
handleReset(a) == [a EXCEPT !.uploadedImage = "null", !.awaitingPhoto = TRUE]

\* new PhotoSheetApp() at time 0.
InitApp ==
    /\ InitRenderer
    /\ InitConfig
    /\ args = DefaultArgs
    /\ form = NoForm
    /\ NoGuidelines
    /\ app = [uploadedImage |-> "null", awaitingPhoto |-> FALSE, demoPending |-> FALSE,
              timers |-> {}, timeout |-> 0, nextId |-> 1, now |-> 0, loads |-> 0,
              calls |-> <<>>, invoked |-> <<>>, composites |-> <<>>]
    /\ crop = Absent
    /\ store = Absent
    /\ upload = Absent
    /\ editor = Absent
    /\ notif = Absent

AppFrame == UNCHANGED <<sheetVars, crop, store, upload, editor, notif>>

\* A change event of the options form: FormHandler.handleChange calls the
\* debounced callback with the options read from the form.
OptionsChange ==
    /\ Len(app.calls) < MaxCalls
    /\ \E options \in QualityOptions : app' = executedFunction(app, options)
    /\ AppFrame

\* A pending timer whose delay has elapsed runs its callback.
Due(a) == {t \in a.timers : t.due <= a.now}

TimerFires ==
    /\ \E timer \in Due(app) : app' = later(app, timer)
    /\ AppFrame

\* Time passes; a timer that is due runs before the clock moves on.
Tick ==
    /\ Due(app) = {}
    /\ app.now < MaxTicks * TickMs
    /\ app' = [app EXCEPT !.now = @ + TickMs]
    /\ AppFrame

PhotoLoaded ==
    /\ app.loads < MaxLoads
    /\ app' = onPhotoLoaded(app, "photo")
    /\ AppFrame

\* A click on the reset button (or Escape while an image is loaded).
Reset ==
    /\ app' = handleReset(app)
    /\ AppFrame

\* handleDemo() up to its await.
DemoClick ==
    /\ ~app.demoPending
    /\ app.loads < MaxLoads
    /\ app' = [app EXCEPT !.demoPending = TRUE]
    /\ AppFrame

\* handleDemo() after generateDemoPhoto() has resolved.
DemoReady ==
    /\ app.demoPending
    /\ app' = onPhotoLoaded([app EXCEPT !.demoPending = FALSE], "demo")
    /\ AppFrame

NextApp ==
    \/ OptionsChange
    \/ TimerFires
    \/ Tick
    \/ PhotoLoaded
    \/ Reset
    \/ DemoClick
    \/ DemoReady

SpecApp == InitApp /\ [][NextApp]_vars

---------------------------------------------------------------------------
(* The photo editor's crop mode: CropManager and the handlers of PhotoEditorApp *)

\* Pointer positions on the overlay, in canvas pixels.
CropCoordinates == {100, 108, 300}

\* What the overlay canvas shows is what the last full repaint left there.
GuidelinesShown(c) == [by |-> "guidelines.render", flags |-> c.flags]

\* this.guidelines.render(), this.guidelines.clear()
guidelinesRender(c) == [c EXCEPT !.overlay = GuidelinesShown(c)]

guidelinesClear(c) == [c EXCEPT !.overlay = [by |-> "guidelines.clear", flags |-> c.flags]]

\* CropManager.disable(): clearCropOverlay() and removeCropListeners()
disable(c) ==
    [c EXCEPT !.cropMode = FALSE, !.cropRect = <<>>, !.isCropping = FALSE,
              !.overlay = [by |-> "clearCropOverlay", flags |-> c.flags],
              !.listening = FALSE]

\* CropManager.cancel(): disable(), then onCropCancel = handleCropCancel
cancel(c) == [guidelinesRender(disable(c)) EXCEPT !.op = "cancel"]

\* CropManager.enable(): onCropStart = handleCropStart, setupCropListeners()
enable(c) ==
    [guidelinesClear([c EXCEPT !.cropMode = TRUE, !.cropRect = <<>>])
        EXCEPT !.listening = TRUE, !.op = "enable"]

\* PhotoEditorApp.toggleCropMode()
toggleCropMode(c) == IF c.cropMode THEN cancel(c) ELSE enable(c)

\* CropManager.startCrop(e)
startCrop(c, x, y) ==
    IF ~c.cropMode THEN c
    ELSE [c EXCEPT !.cropStart = <<x, y>>, !.isCropping = TRUE,
                   !.cropRect = [x |-> x, y |-> y, width |-> 0, height |-> 0],
                   !.op = "startCrop"]

Abs(n) == IF n < 0 THEN -n ELSE n

Min(a, b) == IF a <= b THEN a ELSE b

\* CropManager.updateCrop(e), with drawCropOverlay()
updateCrop(c, x, y) ==
    IF ~c.isCropping THEN c
    ELSE [c EXCEPT !.cropRect = [x |-> Min(c.cropStart[1], x), y |-> Min(c.cropStart[2], y),
                                 width |-> Abs(x - c.cropStart[1]),
                                 height |-> Abs(y - c.cropStart[2])],
                   !.overlay = [by |-> "drawCropOverlay", flags |-> c.flags],
                   !.op = "updateCrop"]

\* CropManager.endCrop(e): onCropEnd = handleCropEnd for a rectangle that
\* is not too small, then disable().
endCrop(c) ==
    IF ~c.isCropping THEN c
    ELSE LET valid == c.cropRect # <<>> /\ c.cropRect.width > 10 /\ c.cropRect.height > 10
             called == IF valid THEN guidelinesRender(c) ELSE c
         IN  [disable([called EXCEPT !.isCropping = FALSE])
                 EXCEPT !.op = IF valid THEN "endCrop: completed" ELSE "endCrop: too small"]

\* new PhotoEditorApp(): initializeModules(), then init() renders the
\* guidelines; both checkboxes start as the markup has them.
InitCrop ==
    /\ InitRenderer
    /\ InitConfig
    /\ args = DefaultArgs
    /\ form = NoForm
    /\ NoGuidelines
    /\ \E f \in BOOLEAN \X BOOLEAN :
          crop = guidelinesRender(
                     [cropMode |-> FALSE, cropRect |-> <<>>, isCropping |-> FALSE,
                      cropStart |-> <<0, 0>>, listening |-> FALSE, flags |-> f,
                      overlay |-> [by |-> "none", flags |-> f], op |-> "init"])
    /\ app = Absent
    /\ store = Absent
    /\ upload = Absent
    /\ editor = Absent
    /\ notif = Absent

CropFrame == UNCHANGED <<sheetVars, app, store, upload, editor, notif>>

\* A click on the crop mode button.
CropModeButton ==
    /\ crop' = toggleCropMode(crop)
    /\ CropFrame

\* mousedown / touchstart on the overlay while the crop listeners are on.
PointerDown ==
    /\ crop.listening
    /\ \E x \in CropCoordinates, y \in CropCoordinates : crop' = startCrop(crop, x, y)
    /\ CropFrame

\* mousemove / touchmove
PointerMove ==
    /\ crop.listening
    /\ \E x \in CropCoordinates, y \in CropCoordinates : crop' = updateCrop(crop, x, y)
    /\ CropFrame

\* mouseup / touchend
PointerUp ==
    /\ crop.listening
    /\ crop' = endCrop(crop)
    /\ CropFrame

\* A change of the face-guide or grid checkbox: toggleFaceGuide(checked) or
\* toggleGrid(checked), each of which renders.
GuideCheckbox ==
    /\ \E f \in BOOLEAN \X BOOLEAN :
          /\ f[1] = crop.flags[1] \/ f[2] = crop.flags[2]
          /\ crop' = [guidelinesRender([crop EXCEPT !.flags = f]) EXCEPT !.op = "toggle"]
    /\ CropFrame

NextCrop ==
    \/ CropModeButton
    \/ PointerDown
    \/ PointerMove
    \/ PointerUp
    \/ GuideCheckbox

SpecCrop == InitCrop /\ [][NextCrop]_vars

CropModeEnded == crop.op \in {"endCrop: completed", "endCrop: too small", "cancel"}

\* C23: when crop mode has just ended, by a completed crop, a too-small
\* rectangle or cancel, the overlay shows the guidelines of the current
\* flags: its last repaint is a guidelines render.
C23_GuidelinesBackAfterCrop ==
    CropModeEnded => crop.overlay = GuidelinesShown(crop)

\* The same for cancel alone.
GuidelinesBackAfterCancel ==
    crop.op = "cancel" => crop.overlay = GuidelinesShown(crop)

---------------------------------------------------------------------------
(* StateManager: a state object with keyed subscribers *)

\* At most MaxObjects nested objects are ever created.
MaxObjects == 2

StateValues == {"v1", "v2"}

\* Keys subscribers name: a top-level key and a dot-notation key.
StateKeys == {"n", "a.b"}

\* The state object has the properties n (a primitive, or undefined when
\* absent) and a (a reference to a nested object with the property b; 0 when
\* absent).  heap[i] is property b of nested object i.
\* get(key) / getValueFromState(state, key), on a state object and the heap
getValueFromState(root, heap, key) ==
    IF key = "n" THEN root.n
    ELSE IF root.a = 0 THEN "undefined" ELSE heap[root.a]

\* notify(state, previousState): the listeners called.  A listener is the
\* key of its options.keys = [key], or "*" for one with no keys.  The heap
\* is the heap as it is now: previousState is a copy of the top level only.
notify(s, previousState) ==
    {l \in s.listeners :
        \/ l = "*"
        \/ getValueFromState(s.root, s.heap, l) # getValueFromState(previousState, s.heap, l)}

\* What the latest update did: the keys whose value differs from the value
\* before the update, and the listeners it called.
Updated(before, after, method, silent) ==
    [after EXCEPT !.last =
        [op |-> method, silent |-> silent,
         changed |-> {k \in StateKeys : getValueFromState(before.root, before.heap, k)
                                          # getValueFromState(after.root, after.heap, k)},
         called |-> IF silent THEN {} ELSE notify(after, before.root)]]

\* set(key, value, silent)
set(s, key, value, silent) ==
    LET previousState == s.root
        written ==
            IF key = "n" THEN [s EXCEPT !.root.n = value]
            ELSE IF s.root.a = 0
                 THEN [s EXCEPT !.root.a = s.nextObject, !.nextObject = @ + 1,
                                !.heap[s.nextObject] = value]
                 ELSE [s EXCEPT !.heap[s.root.a] = value]
    IN  Updated(s, written, "set", silent)

\* setState({n: value}, silent)
setState(s, value, silent) ==
    Updated(s, [s EXCEPT !.root.n = value], "setState", silent)

\* setState({a: {b: value}}, silent): the update carries a new object.
setStateNested(s, value, silent) ==
    Updated(s, [s EXCEPT !.root.a = s.nextObject, !.nextObject = @ + 1,
                         !.heap[s.nextObject] = value], "setState", silent)

\* new StateManager({}) or new StateManager({n: 'v1'})
InitStore ==
    /\ InitRenderer
    /\ InitConfig
    /\ args = DefaultArgs
    /\ form = NoForm
    /\ NoGuidelines
    /\ app = Absent
    /\ crop = Absent
    /\ \E n \in {"undefined", "v1"} :
          store = [root |-> [n |-> n, a |-> 0],
                   heap |-> [i \in 1..(MaxObjects + 1) |-> "undefined"],
                   nextObject |-> 1, listeners |-> {},
                   last |-> [op |-> "constructor", silent |-> FALSE,
                             changed |-> {}, called |-> {}]]
    /\ upload = Absent
    /\ editor = Absent
    /\ notif = Absent

StoreFrame == UNCHANGED <<sheetVars, app, crop, upload, editor, notif>>

\* subscribe(callback, {keys: [key]}) or subscribe(callback)
Subscribe ==
    /\ \E l \in (StateKeys \cup {"*"}) \ store.listeners :
          store' = [store EXCEPT !.listeners = @ \cup {l}, !.last.op = "subscribe"]
    /\ StoreFrame

Unsubscribe ==
    /\ \E l \in store.listeners :
          store' = [store EXCEPT !.listeners = @ \ {l}, !.last.op = "unsubscribe"]
    /\ StoreFrame

Set ==
    /\ \E key \in StateKeys, value \in StateValues, silent \in BOOLEAN :
          /\ key = "a.b" /\ store.root.a = 0 => store.nextObject <= MaxObjects
          /\ store' = set(store, key, value, silent)
    /\ StoreFrame

SetState ==
    /\ \E value \in StateValues, silent \in BOOLEAN :
          store' = setState(store, value, silent)
    /\ StoreFrame

SetStateNested ==
    /\ store.nextObject <= MaxObjects
    /\ \E value \in StateValues, silent \in BOOLEAN :
          store' = setStateNested(store, value, silent)
    /\ StoreFrame

NextStore ==
    \/ Subscribe
    \/ Unsubscribe
    \/ Set
    \/ SetState
    \/ SetStateNested

SpecStore == InitStore /\ [][NextStore]_vars

NonSilentUpdate == store.last.op \in {"set", "setState"} /\ ~store.last.silent

\* C24: after a non-silent set or setState, a subscriber with keys = [k] has
\* been called exactly when the value at k differs from the value before the
\* update, for the top-level key and for the dot-notation key.
C24_KeyedSubscriberCalledIffChanged ==
    NonSilentUpdate =>
        \A k \in store.listeners \cap StateKeys :
            k \in store.last.called <=> k \in store.last.changed

\* The same for subscribers of the top-level key alone.
TopLevelSubscriberCalledIffChanged ==
    NonSilentUpdate =>
        ("n" \in store.listeners => ("n" \in store.last.called <=> "n" \in store.last.changed))

\* A keyed subscriber is never called without a change of its key.
KeyedSubscriberCalledOnlyIfChanged ==
    NonSilentUpdate => (store.last.called \cap StateKeys) \subseteq store.last.changed

---------------------------------------------------------------------------
(* PhotoUploadHandler: asynchronous uploads and reset *)

\* At most MaxUploads files are uploaded.
MaxUploads == 3

\* handleFileUpload(file) up to "await readFileAsDataURL(file)", for a file
\* that passes validation.  Uploads are numbered in the order they start.
handleFileUpload(u) ==
    [u EXCEPT !.inFlight = @ \cup {[id |-> u.started + 1, stage |-> "reading"]},
              !.started = @ + 1, !.op = "handleFileUpload"]

\* The file has been read: handleFileUpload goes on to loadFromDataURL,
\* up to "await loadImageFromDataURL(dataURL)".
loadFromDataURL(u, id) ==
    [u EXCEPT !.inFlight = (@ \ {[id |-> id, stage |-> "reading"]})
                               \cup {[id |-> id, stage |-> "decoding"]},
              !.op = "loadFromDataURL"]

\* The image has been decoded: the rest of loadFromDataURL, with autoSave.
\* u.loaded lists the onPhotoLoaded calls since the last reset.
imageLoaded(u, id) ==
    [u EXCEPT !.inFlight = @ \ {[id |-> id, stage |-> "decoding"]},
              !.uploadedImage = id,
              !.storage = id,
              !.loaded = Append(@, id),
              !.op = "onPhotoLoaded"]

\* reset(); u.resetAt is the number of uploads started before it.
reset(u) ==
    [u EXCEPT !.uploadedImage = 0, !.storage = 0, !.loaded = <<>>,
              !.hasReset = TRUE, !.resetAt = u.started, !.op = "reset"]

\* new PhotoUploadHandler(config) with no photo in storage; 0 stands for
\* null and for an empty storage.
InitUpload ==
    /\ InitRenderer
    /\ InitConfig
    /\ args = DefaultArgs
    /\ form = NoForm
    /\ NoGuidelines
    /\ app = Absent
    /\ crop = Absent
    /\ store = Absent
    /\ upload = [uploadedImage |-> 0, storage |-> 0, inFlight |-> {}, started |-> 0,
                 loaded |-> <<>>, hasReset |-> FALSE, resetAt |-> 0, op |-> "constructor"]
    /\ editor = Absent
    /\ notif = Absent

UploadFrame == UNCHANGED <<sheetVars, app, crop, store, editor, notif>>

\* A file is chosen or dropped.
FileChosen ==
    /\ upload.started < MaxUploads
    /\ upload' = handleFileUpload(upload)
    /\ UploadFrame

\* readFileAsDataURL resolves for one of the uploads.
FileRead ==
    /\ \E t \in upload.inFlight :
          /\ t.stage = "reading"
          /\ upload' = loadFromDataURL(upload, t.id)
    /\ UploadFrame

\* loadImageFromDataURL resolves for one of the uploads.
ImageDecoded ==
    /\ \E t \in upload.inFlight :
          /\ t.stage = "decoding"
          /\ upload' = imageLoaded(upload, t.id)
    /\ UploadFrame

ResetUpload ==
    /\ upload' = reset(upload)
    /\ UploadFrame

NextUpload ==
    \/ FileChosen
    \/ FileRead
    \/ ImageDecoded
    \/ ResetUpload

SpecUpload == InitUpload /\ [][NextUpload]_vars

hasImage == upload.uploadedImage # 0

LoadedIds == {upload.loaded[i] : i \in 1..Len(upload.loaded)}

\* The uploads started after the last reset (all of them if there was none).
StartedAfterReset == {id \in 1..upload.started : id > upload.resetAt}

\* After a reset nothing is installed until an upload started after it has
\* completed: no image, no stored photo, no onPhotoLoaded call.
NothingInstalledAfterReset ==
    (upload.hasReset /\ LoadedIds \cap StartedAfterReset = {}) =>
        /\ ~hasImage
        /\ upload.storage = 0
        /\ upload.loaded = <<>>

\* Once all uploads have completed, the image kept is that of the upload
\* started last.
LastStartedUploadIsKept ==
    (upload.inFlight = {} /\ StartedAfterReset # {}) =>
        /\ upload.uploadedImage = upload.started
        /\ upload.storage = upload.started

\* C26: after reset() nothing is installed until an upload started after
\* the reset completes, an upload in flight at the reset does not
\* re-install its image, and of overlapping uploads the one started last is
\* the one kept.
C26_ResetAndLatestUploadWin ==
    /\ NothingInstalledAfterReset
    /\ LastStartedUploadIsKept

---------------------------------------------------------------------------
(* CanvasEditor: zoom, rotation and pan of one editor *)

\* Bounds: at most MaxAdjustments wheel and keyboard steps, and a pan of at
\* most MaxPan pointer steps in each direction.
MaxAdjustments == 1
MaxPan == 1

\* Scales are hundredths (1 = 100, 0.05 = 5), rotations are whole degrees.
MinScale == 10
MaxScale == 300
MaxRotation == 45
UnitScale == 100

\* Pointer positions relative to the canvas: clientX - rect.left, clientY - rect.top.
PointerPositions == {<<0, 0>>, <<10, 0>>, <<10, 10>>}

\* The farthest pan, in pixels.
PanLimit == MaxPan * 10

\* Arguments of setZoom and setRotation: the ends of the sliders, values
\* next to them and values beyond them.
ZoomArguments == {5, UnitScale, MaxScale - 5, MaxScale + 100}
RotationArguments == {-50, 0, MaxRotation - 1, 50}

\* render(): draws only with an image; e.drawn is the transform of the
\* latest drawing on the edit canvas.
CanvasEditor_render(e) ==
    IF e.currentImage = 0 THEN e
    ELSE [e EXCEPT !.drawn = <<e.scale, e.rotation, e.offsetX, e.offsetY>>]

\* What the latest operation was: its name, whether a drag was under way
\* when it started, and whether it changed the offsets.
Did(before, after, name) ==
    [after EXCEPT !.last = [op |-> name, inDrag |-> before.inDrag,
                            moved |-> <<after.offsetX, after.offsetY>>
                                        # <<before.offsetX, before.offsetY>>]]

\* Variant: the upper limit is not applied.
setZoom_noUpperLimit(e, newScale) ==
    Did(e, CanvasEditor_render([e EXCEPT !.scale = Max(MinScale, newScale)]), "setZoom")

\* setZoom(newScale)
setZoom(e, newScale) ==
    Did(e, CanvasEditor_render([e EXCEPT !.scale = Max(MinScale, Min(MaxScale, newScale))]),
        "setZoom")

\* setRotation(angle)
setRotation(e, angle) ==
    Did(e, CanvasEditor_render(
               [e EXCEPT !.rotation = Max(-MaxRotation, Min(MaxRotation, angle))]),
        "setRotation")

\* resetTransform()
resetTransform(e) ==
    Did(e, CanvasEditor_render([e EXCEPT !.scale = UnitScale, !.rotation = 0,
                                         !.offsetX = 0, !.offsetY = 0]),
        "resetTransform")

\* startDrag(e), for the pointer at p
startDrag(e, p) ==
    Did(e, [e EXCEPT !.isDragging = TRUE, !.dragStartX = p[1] - e.offsetX,
                     !.dragStartY = p[2] - e.offsetY], "startDrag")

\* drag(e), for the pointer at p
drag(e, p) ==
    IF ~e.isDragging THEN Did(e, e, "drag")
    ELSE Did(e, CanvasEditor_render([e EXCEPT !.offsetX = p[1] - e.dragStartX,
                                              !.offsetY = p[2] - e.dragStartY]), "drag")

\* endDrag()
endDrag(e) == Did(e, [e EXCEPT !.isDragging = FALSE], "endDrag")

\* img.onload of loadImage(source)
loadImage(e) ==
    Did(e, CanvasEditor_render(resetTransform([e EXCEPT !.currentImage = 1])), "loadImage")

\* clear()
clear(e) ==
    Did(e, resetTransform([e EXCEPT !.currentImage = 0, !.drawn = <<>>]), "clear")

\* new CanvasEditor(editCanvas, overlayCanvas, options)
NewCanvasEditor ==
    [scale |-> UnitScale, rotation |-> 0, offsetX |-> 0, offsetY |-> 0,
     isDragging |-> FALSE, dragStartX |-> 0, dragStartY |-> 0, currentImage |-> 0,
     drawn |-> <<>>, inDrag |-> FALSE, adjustments |-> 0,
     last |-> [op |-> "constructor", inDrag |-> FALSE, moved |-> FALSE]]

InitEditor ==
    /\ InitRenderer
    /\ InitConfig
    /\ args = DefaultArgs
    /\ form = NoForm
    /\ NoGuidelines
    /\ app = Absent
    /\ crop = Absent
    /\ store = Absent
    /\ upload = Absent
    /\ editor = NewCanvasEditor
    /\ notif = Absent

EditorFrame == UNCHANGED <<sheetVars, app, crop, store, upload, notif>>

\* The zoom slider: setZoom(parseFloat(value)).
ZoomSlider ==
    /\ \E z \in ZoomArguments : editor' = setZoom(editor, z)
    /\ EditorFrame

\* The rotation slider: setRotation(parseFloat(value)).
RotationSlider ==
    /\ \E r \in RotationArguments : editor' = setRotation(editor, r)
    /\ EditorFrame

\* 'wheel' on the edit canvas (steps of 0.05), and the + and - keys:
\* adjustZoom(0.1), adjustZoom(-0.1).
WheelOrZoomKey ==
    /\ editor.adjustments < MaxAdjustments
    /\ \E delta \in {-10, -5, 5, 10} :
          editor' = [setZoom(editor, editor.scale + delta) EXCEPT !.adjustments = @ + 1]
    /\ EditorFrame

\* The arrow keys: adjustRotation(-1), adjustRotation(1).
RotationKey ==
    /\ editor.adjustments < MaxAdjustments
    /\ \E delta \in {-1, 1} :
          editor' = [setRotation(editor, editor.rotation + delta) EXCEPT !.adjustments = @ + 1]
    /\ EditorFrame

\* mousedown / touchstart on the edit canvas
MouseDown ==
    /\ \E p \in PointerPositions : editor' = [startDrag(editor, p) EXCEPT !.inDrag = TRUE]
    /\ EditorFrame

\* mousemove / touchmove; the pan stays within the bound.
MouseMove ==
    /\ \E p \in PointerPositions :
          LET moved == drag(editor, p)
          IN  /\ Abs(moved.offsetX) <= PanLimit
              /\ Abs(moved.offsetY) <= PanLimit
              /\ editor' = moved
    /\ EditorFrame

\* mouseup / mouseleave / touchend
MouseUp ==
    /\ editor' = [endDrag(editor) EXCEPT !.inDrag = FALSE]
    /\ EditorFrame

\* The reset button and the r key: handleReset -> resetTransform().
ResetTransform ==
    /\ editor' = resetTransform(editor)
    /\ EditorFrame

LoadImage ==
    /\ editor' = loadImage(editor)
    /\ EditorFrame

ClearEditor ==
    /\ editor' = clear(editor)
    /\ EditorFrame

NextEditor ==
    \/ ZoomSlider
    \/ RotationSlider
    \/ WheelOrZoomKey
    \/ RotationKey
    \/ MouseDown
    \/ MouseMove
    \/ MouseUp
    \/ ResetTransform
    \/ LoadImage
    \/ ClearEditor

SpecEditor == InitEditor /\ [][NextEditor]_vars

\* C29: the scale stays within 0.1 .. 3 and the rotation within -45 .. 45;
\* resetTransform and clear leave the identity transform; a pointer move
\* changes the offsets only between a startDrag and the next endDrag.
C29_TransformStaysInRange ==
    /\ MinScale <= editor.scale /\ editor.scale <= MaxScale
    /\ -MaxRotation <= editor.rotation /\ editor.rotation <= MaxRotation
    /\ editor.last.op \in {"resetTransform", "clear"} =>
          <<editor.scale, editor.rotation, editor.offsetX, editor.offsetY>>
              = <<UnitScale, 0, 0, 0>>
    /\ (editor.last.op = "drag" /\ editor.last.moved) => editor.last.inDrag

\* The wheel has pushed a zoomed-in photo against the upper limit while it
\* is panned, and the photo is drawn with that transform.
C29_Witness ==
    /\ editor.last.op = "setZoom"
    /\ editor.adjustments > 0
    /\ editor.scale = MaxScale
    /\ editor.offsetX # 0
    /\ editor.drawn = <<MaxScale, editor.rotation, editor.offsetX, editor.offsetY>>

\* A pointer move without a drag under way has been ignored.
MoveIgnored ==
    /\ editor.last.op = "drag"
    /\ ~editor.last.inDrag
    /\ editor.offsetX # 0

---------------------------------------------------------------------------
(* PhotoEditorApp: dimension changes re-create the editor's modules *)

\* At most MaxEditors CanvasEditors are created: the first and one per
\* dimension change.
MaxEditors == 2

\* The transform of a CanvasEditor.
Transform(e) == <<e.scale, e.rotation, e.offsetX, e.offsetY>>

\* The listeners setupCanvasInteraction adds to the edit canvas are never
\* removed, so an event on the canvas runs the handler of every CanvasEditor
\* constructed so far, in the order of construction.  The result records
\* which editors changed their transform and which drew on the canvas.
Dispatch(d, handled, name) ==
    LET n == Len(d.editors)
        drawing == {i \in 1..n : handled[i].currentImage # 0
                                   /\ handled[i].last.op = "drag"
                                   /\ d.editors[i].isDragging}
    IN  [d EXCEPT !.editors = handled,
                  !.changed = {i \in 1..n : Transform(handled[i]) # Transform(d.editors[i])},
                  !.drew = drawing,
                  !.op = name]

\* initializeModules(): a new CanvasEditor, whose constructor adds its
\* listeners, and a new CropManager; this.canvasEditor and this.cropManager
\* now refer to the new ones, the last of each sequence.
initializeModules(d) ==
    [d EXCEPT !.editors = Append(@, NewCanvasEditor),
              !.cropManagers = Append(@, [cropMode |-> FALSE, listening |-> FALSE])]

\* handleDimensionChange(dimension): the photo of the current editor, if
\* any, is handed to the new one, whose loadImage completes later.
handleDimensionChange(d) ==
    LET currentImage == d.editors[Len(d.editors)].currentImage
        made == initializeModules(d)
    IN  [made EXCEPT !.loading = IF currentImage # 0 THEN @ \cup {Len(made.editors)} ELSE @,
                     !.changed = {}, !.drew = {}, !.op = "handleDimensionChange"]

\* toggleCropMode() on the current CropManager: enable() adds its listeners
\* to the overlay canvas, cancel() removes them.
toggleCropModeOfCurrent(d) ==
    LET c == Len(d.cropManagers)
        active == d.cropManagers[c].cropMode
    IN  [d EXCEPT !.cropManagers[c] = [cropMode |-> ~active, listening |-> ~active],
                  !.changed = {}, !.drew = {}, !.op = "toggleCropMode"]

\* new PhotoEditorApp()
InitDimension ==
    /\ InitRenderer
    /\ InitConfig
    /\ args = DefaultArgs
    /\ form = NoForm
    /\ NoGuidelines
    /\ app = Absent
    /\ crop = Absent
    /\ store = Absent
    /\ upload = Absent
    /\ editor = initializeModules([editors |-> <<>>, cropManagers |-> <<>>, loading |-> {},
                                   changed |-> {}, drew |-> {}, op |-> "constructor"])
    /\ notif = Absent

\* 'change' on the dimension select
DimensionChange ==
    /\ Len(editor.editors) < MaxEditors
    /\ editor' = handleDimensionChange(editor)
    /\ EditorFrame

\* onPhotoLoaded: this.canvasEditor.loadImage(dataURL) starts.
EditorPhotoChosen ==
    /\ Len(editor.editors) \notin editor.loading
    /\ editor' = [editor EXCEPT !.loading = @ \cup {Len(editor.editors)},
                                !.changed = {}, !.drew = {}, !.op = "onPhotoLoaded"]
    /\ EditorFrame

\* img.onload of a loadImage call, of whichever editor it was made on.
EditorImageLoaded ==
    /\ \E i \in editor.loading :
          editor' = [editor EXCEPT !.editors[i] = loadImage(@), !.loading = @ \ {i},
                                   !.changed = {}, !.drew = {i}, !.op = "img.onload"]
    /\ EditorFrame

CanvasMouseDown ==
    /\ \E p \in PointerPositions :
          editor' = Dispatch(editor, [i \in DOMAIN editor.editors |->
                                         startDrag(editor.editors[i], p)], "mousedown")
    /\ EditorFrame

CanvasMouseMove ==
    /\ \E p \in PointerPositions :
          LET handled == [i \in DOMAIN editor.editors |-> drag(editor.editors[i], p)]
          IN  /\ \A i \in DOMAIN handled : /\ Abs(handled[i].offsetX) <= PanLimit
                                           /\ Abs(handled[i].offsetY) <= PanLimit
              /\ editor' = Dispatch(editor, handled, "mousemove")
    /\ EditorFrame

CanvasMouseUp ==
    /\ editor' = Dispatch(editor, [i \in DOMAIN editor.editors |->
                                      endDrag(editor.editors[i])], "mouseup")
    /\ EditorFrame

CropToggle ==
    /\ editor' = toggleCropModeOfCurrent(editor)
    /\ EditorFrame

NextDimension ==
    \/ DimensionChange
    \/ EditorPhotoChosen
    \/ EditorImageLoaded
    \/ CanvasMouseDown
    \/ CanvasMouseMove
    \/ CanvasMouseUp
    \/ CropToggle

SpecDimension == InitDimension /\ [][NextDimension]_vars

CurrentEditor == Len(editor.editors)

\* A pointer event changes the transform of the current CanvasEditor only.
OnlyCurrentEditorMoves ==
    editor.op \in {"mousedown", "mousemove", "mouseup"} => editor.changed \subseteq {CurrentEditor}

\* No editor created before the last dimension change draws on the canvas.
OnlyCurrentEditorDraws == editor.drew \subseteq {CurrentEditor}

\* No CropManager created before the last dimension change is in crop mode
\* or listens to the overlay.
OnlyCurrentCropManagerActive ==
    \A i \in 1..(Len(editor.cropManagers) - 1) :
        /\ ~editor.cropManagers[i].cropMode
        /\ ~editor.cropManagers[i].listening

\* C27: after any sequence of dimension changes, pointer events move the
\* current CanvasEditor only, and no earlier CanvasEditor draws on the
\* canvas and no earlier CropManager keeps crop mode active.
C27_OnlyCurrentModulesReact ==
    /\ OnlyCurrentEditorMoves
    /\ OnlyCurrentEditorDraws
    /\ OnlyCurrentCropManagerActive

---------------------------------------------------------------------------
(* NotificationManager: the visible-notification limit and the close animation *)

\* At most MaxShows notifications are shown and the close handle returned by
\* show is called at most MaxHandleCloses times.
MaxShows == 5
MaxHandleCloses == 1

\* APP_CONFIG.NOTIFICATION.MAX_VISIBLE
MAX_VISIBLE == 3

\* A notification is named by its position in the order of the show calls.
\* notifications is this.notifications; timeout holds the notifications whose
\* auto-close timeout is pending; timers holds, oldest first, the pending
\* timeouts set by close, which all wait ANIMATION_DURATION and so fire in
\* the order they were set; onClose counts the calls of options.onClose.
\* overlapped and direct record how the manager was used: whether show was
\* called while a close animation was pending, and whether a notification
\* was closed by its timeout or by its handle.
NewNotificationManager ==
    [notifications |-> <<>>, timeout |-> {}, timers |-> <<>>,
     withOnClose |-> {}, onClose |-> [id \in 1..MaxShows |-> 0],
     shown |-> 0, handleCloses |-> 0,
     overlapped |-> FALSE, direct |-> FALSE, op |-> "constructor"]

\* close(notification): the element is never set to null, so the early return
\* is not taken for a notification created by show; the auto-close timeout is
\* cleared and the removal is scheduled.  Nothing records that the
\* notification is already closing.
close(n, id) ==
    [n EXCEPT !.timeout = @ \ {id}, !.timers = Append(@, id)]

\* The loop of limitVisibleNotifications: each iteration closes
\* this.notifications[0], which close leaves in the list.
RECURSIVE closeFirst(_, _)
closeFirst(n, toRemove) ==
    IF toRemove = 0 THEN n
    ELSE closeFirst(close(n, n.notifications[1]), toRemove - 1)

limitVisibleNotifications(n) ==
    IF Len(n.notifications) > MAX_VISIBLE
    THEN closeFirst(n, Len(n.notifications) - MAX_VISIBLE)
    ELSE n

\* show(message, type, options): the notification is created and appended,
\* its auto-close timeout is set (the duration is positive for every type,
\* and options.duration || ... replaces a zero duration by the default), and
\* the limit is applied.
show(n, hasOnClose) ==
    LET id == n.shown + 1
        added == [n EXCEPT !.notifications = Append(@, id),
                           !.shown = id,
                           !.withOnClose = IF hasOnClose THEN @ \cup {id} ELSE @,
                           !.timeout = @ \cup {id},
                           !.overlapped = @ \/ n.timers # <<>>,
                           !.op = "show"]
    IN  limitVisibleNotifications(added)

\* The callback close passes to setTimeout: the notification is spliced out
\* of the list if indexOf finds it, and options.onClose is called whether it
\* was found or not.
removeAfterAnimation(n) ==
    LET id == Head(n.timers)
    IN  [n EXCEPT !.timers = Tail(@),
                  !.notifications = SelectSeq(@, LAMBDA other : other # id),
                  !.onClose[id] = IF id \in n.withOnClose THEN @ + 1 ELSE @,
                  !.op = "removed"]

InitNotif ==
    /\ InitRenderer
    /\ InitConfig
    /\ args = DefaultArgs
    /\ form = NoForm
    /\ NoGuidelines
    /\ app = Absent
    /\ crop = Absent
    /\ store = Absent
    /\ upload = Absent
    /\ editor = Absent
    /\ notif = NewNotificationManager

NotifFrame == UNCHANGED <<sheetVars, app, crop, store, upload, editor>>

\* A caller shows a notification, with or without an onClose callback.
Show ==
    /\ notif.shown < MaxShows
    /\ \E hasOnClose \in BOOLEAN : notif' = show(notif, hasOnClose)
    /\ NotifFrame

\* The oldest pending timeout set by close fires.
CloseAnimationEnds ==
    /\ notif.timers # <<>>
    /\ notif' = removeAfterAnimation(notif)
    /\ NotifFrame

\* The auto-close timeout of a notification fires.
AutoClose ==
    /\ \E id \in notif.timeout :
           notif' = [close(notif, id) EXCEPT !.direct = TRUE, !.op = "timeout"]
    /\ NotifFrame

\* A caller uses the close function show returned, at any later time.
HandleClose ==
    /\ notif.handleCloses < MaxHandleCloses
    /\ \E id \in 1..notif.shown :
           notif' = [close(notif, id) EXCEPT !.direct = TRUE,
                                             !.handleCloses = @ + 1,
                                             !.op = "handle"]
    /\ NotifFrame

NextNotif ==
    \/ Show
    \/ CloseAnimationEnds
    \/ AutoClose
    \/ HandleClose

SpecNotif == InitNotif /\ [][NextNotif]_vars

\* Every timeout set by close has fired, and only show closed notifications.
AnimationsDoneAfterShows == notif.timers = <<>> /\ ~notif.direct

AtMostMaxVisible == Len(notif.notifications) <= MAX_VISIBLE

\* The list holds the newest of the notifications shown, in order.
OldestRemoved ==
    \A i \in 1..Len(notif.notifications) :
        notif.notifications[i] = notif.shown - Len(notif.notifications) + i

OnCloseAtMostOnce == \A id \in 1..MaxShows : notif.onClose[id] <= 1

\* C30: after any sequence of show calls, once the pending close timers have
\* fired, at most MAX_VISIBLE notifications remain, the removed ones are the
\* oldest, and no onClose callback has been called more than once.
C30_LimitHoldsAfterCloseTimers ==
    AnimationsDoneAfterShows =>
        /\ AtMostMaxVisible
        /\ OldestRemoved
        /\ OnCloseAtMostOnce

\* The same for show calls that are never made while a close animation is
\* pending.
SpacedShowsKeepLimit ==
    (AnimationsDoneAfterShows /\ ~notif.overlapped) =>
        /\ AtMostMaxVisible
        /\ OldestRemoved
        /\ OnCloseAtMostOnce

\* The two parts of C30 that fail, each on its own.
ShowsKeepAtMostMaxVisible == AnimationsDoneAfterShows => AtMostMaxVisible

ShowsCallOnCloseAtMostOnce == AnimationsDoneAfterShows => OnCloseAtMostOnce

\* The show calls alone always remove the oldest notifications.
ShowsRemoveOldest == AnimationsDoneAfterShows => OldestRemoved

\* A spaced sequence of shows reaches the limit and has removed a notification.
SpacedShowsRemoveOne ==
    /\ AnimationsDoneAfterShows
    /\ ~notif.overlapped
    /\ notif.shown > MAX_VISIBLE
    /\ Len(notif.notifications) = MAX_VISIBLE

---------------------------------------------------------------------------
(* Properties of the sheet geometry *)

\* The inputs C1 enumerates: a named layout, DPI 200 or 300, gapSize 0.05.
C1_Case ==
    /\ Composed
    /\ args.layout \in NamedLayouts
    /\ args.dpi \in {200, 300}
    /\ args.gapSize = 5

\* C1 as stated: for every preset and each of the three custom strategies,
\* DPI 200 or 300 and every gapEnabled/borderEnabled with gapSize 0.05, every
\* cell drawn lies inside the canvas.
C1_AllCellsInside == C1_Case => AllInside

\* C1 amended: every cell lies inside the canvas for 5x7, vertical-apart and
\* grid-aligned under every option combination, and for 4x6, 8x10 and
\* vertical-centered when gapEnabled is false.
C1_CellsInsideWhenGridFits ==
    (C1_Case /\ (args.gapEnabled =>
                    args.layout \in {LAYOUTS["5x7"], VerticalApartLayout,
                                     GridAlignedLayout}))
        => AllInside

C1_Witness ==
    /\ C1_Case
    /\ args.layout = LAYOUTS["5x7"]
    /\ args.gapEnabled
    /\ args.borderEnabled
    /\ args.dpi = 200
    /\ Len(Cells) = 6
    /\ Cells[1].x > 0

\* C2: the number of drawImage calls of one createComposite call equals
\* layout.photos, for uniform layouts (photos = cols*rows) and for the three
\* custom spacing strategies whatever cols*rows is.
C2_CountIsPhotos ==
    (/\ Composed
     /\ (~args.layout.customSpacing
            => args.layout.photos = args.layout.cols * args.layout.rows)
     /\ (args.layout.customSpacing
            => args.layout.spacingType \in KnownSpacingTypes))
        => Len(Cells) = args.layout.photos

\* C3: in a uniform grid cell (row, col) is at startX + col*(photo + gap),
\* startY + row*(photo + gap), photo = 2*dpi, gap = gapEnabled ? gapSize*dpi
\* : 0, startX = (width - (cols*photo + (cols-1)*gap))/2; 4x6 at 300 DPI
\* without gap is a 1200x1800 canvas with 6 cells of 600 px from (0, 0); 5x7
\* at 300 DPI with gap 0.05 has gap 15 px and startX 142.5 px.
C3_UniformGridPlacement ==
    (Composed /\ ~args.layout.customSpacing) =>
        LET l == args.layout
            photo == 2 * args.dpi * SubPx
            gap100 == IF args.gapEnabled THEN args.gapSize * args.dpi * SubPx
                      ELSE 0
            startX200 == 100 * l.width * args.dpi * SubPx
                         - (100 * l.cols * photo + (l.cols - 1) * gap100)
            startY200 == 100 * l.height * args.dpi * SubPx
                         - (100 * l.rows * photo + (l.rows - 1) * gap100)
        IN  /\ Len(Cells) = l.rows * l.cols
            /\ \A row \in 0..(l.rows - 1) : \A col \in 0..(l.cols - 1) :
                 LET c == Cells[row * l.cols + col + 1]
                 IN  /\ 200 * c.x = startX200 + 2 * col * (100 * photo + gap100)
                     /\ 200 * c.y = startY200 + 2 * row * (100 * photo + gap100)
                     /\ c.w = photo
                     /\ c.h = photo
            /\ (l = LAYOUTS["4x6"] /\ args.dpi = 300 /\ ~args.gapEnabled) =>
                 /\ canvas = [width |-> 1200 * SubPx, height |-> 1800 * SubPx]
                 /\ Len(Cells) = 6
                 /\ \A i \in 1..6 : Cells[i].w = 600 * SubPx
                 /\ Cells[1].x = 0
                 /\ Cells[1].y = 0
            /\ (l = LAYOUTS["5x7"] /\ args.dpi = 300 /\ args.gapEnabled
                    /\ args.gapSize = 5) =>
                 /\ Cells[2].x - (Cells[1].x + 600 * SubPx) = 15 * SubPx
                 /\ 2 * Cells[1].x = 285 * SubPx

C3_Witness ==
    /\ Composed
    /\ args.layout = LAYOUTS["5x7"]
    /\ args.dpi = 300
    /\ args.gapEnabled
    /\ args.gapSize = 5
    /\ Len(Cells) = 6
    /\ 2 * Cells[1].x = 285 * SubPx

\* C4: in a uniform grid the left margin equals the right margin and the
\* top margin equals the bottom margin.
C4_MarginsSymmetric ==
    (Composed /\ ~args.layout.customSpacing) =>
        /\ Len(Cells) >= 1
        /\ Cells[1].x = canvas.width - (Cells[Len(Cells)].x + Cells[Len(Cells)].w)
        /\ Cells[1].y = canvas.height - (Cells[Len(Cells)].y + Cells[Len(Cells)].h)

C4_Witness ==
    /\ Composed
    /\ ~args.layout.customSpacing
    /\ args.layout = LAYOUTS["5x7"]
    /\ args.dpi = 300
    /\ ~args.gapEnabled
    /\ Cells[1].x = 150 * SubPx
    /\ Cells[1].y = 150 * SubPx

\* C5: with gapEnabled false, whatever gapSize is, the canvas size and the
\* cell positions are those of gapEnabled true with gapSize 0.
C5_GapOffIsZeroGap ==
    (Composed /\ ~args.gapEnabled) =>
        Geometry = GeometryOf([args EXCEPT !.gapEnabled = TRUE, !.gapSize = 0])

C5_Witness ==
    /\ Composed
    /\ ~args.gapEnabled
    /\ args.gapSize = 10
    /\ args.layout = LAYOUTS["5x7"]
    /\ Len(Cells) = 6

\* C6: replacing dpi by 2*dpi doubles the canvas width and height, the cell
\* size and the x and y of every cell, for every layout, options and
\* strategy.
C6_DoubleDpiDoublesGeometry ==
    Composed => GeometryOf([args EXCEPT !.dpi = 2 * args.dpi]) = Doubled(Geometry)

C6_Witness ==
    /\ Composed
    /\ args.layout = GridAlignedLayout
    /\ args.dpi = 300
    /\ Len(Cells) = 6
    /\ Cells[1].x = 75 * SubPx

\* C7: two createComposite calls with identical layout, dpi and options give
\* identical canvas size and cell positions, whatever createComposite and
\* clear calls ran on the renderer in between.
C7_GeometryDependsOnArgumentsOnly ==
    (Composed /\ ref.set /\ ref.args = args) => Geometry = ref.geometry

C7_Witness ==
    /\ Composed
    /\ ref.set
    /\ ref.args = args
    /\ ref.other
    /\ Len(Cells) >= 1

C9_UnknownSpacingIsUniformGrid ==
    (Composed /\ args.layout.spacingType \notin KnownSpacingTypes) =>
        Geometry = GeometryOf([args EXCEPT !.layout.customSpacing = FALSE])

\* C10: getLayout(key) is the preset of key for '4x6', '5x7', '8x10' and the
\* '4x6' preset for every other string; getDPI(quality) is 300 for 'high',
\* 200 for 'medium' and 300 for every other string.
C10_LookupsFallBack ==
    /\ layoutResult # NoResult =>
         /\ layoutResult.tag = "own"
         /\ layoutResult.obj = "LAYOUTS"
         /\ layoutResult.key = (IF sizeKey \in {"4x6", "5x7", "8x10"}
                                THEN sizeKey ELSE "4x6")
    /\ dpiResult # NoResult =>
         /\ dpiResult.tag = "own"
         /\ dpiResult.obj = "DPI_SETTINGS"
         /\ DPI_SETTINGS[dpiResult.key] = (IF quality = "medium" THEN 200 ELSE 300)

\* C12: with the vertical-centered strategy, 2 columns, any number of rows
\* and any gap setting, the block of cells is centred as one unit: the left
\* margin equals the right margin and the top margin equals the bottom
\* margin.
C12_VerticalCenteredBlockCentred ==
    (/\ Composed
     /\ args.layout.customSpacing
     /\ args.layout.spacingType = "vertical-centered"
     /\ args.layout.cols = 2) =>
        /\ Len(Cells) = 2 * args.layout.rows
        /\ Cells[1].x
             = canvas.width - (Cells[Len(Cells)].x + Cells[Len(Cells)].w)
        /\ Cells[1].y
             = canvas.height - (Cells[Len(Cells)].y + Cells[Len(Cells)].h)

\* The same call with another gap setting.
WithGap(a, enabled, size) == [a EXCEPT !.gapEnabled = enabled, !.gapSize = size]

GapIndependent ==
    \A enabled \in BOOLEAN : \A size \in GapSizeInputs :
        GeometryOf(WithGap(args, enabled, size)) = Geometry

\* C13: with the grid-aligned strategy cell (row, col) is drawn at
\* x = 0.25*dpi + col*(2*dpi + 0.5*dpi), y = 0.25*dpi + row*(2*dpi +
\* 0.25*dpi) whatever gapEnabled and gapSize are; on a 5x7 sheet with 2
\* columns and 3 rows the right and bottom margins are exactly 0.25*dpi.
C13_GridAlignedPlacement ==
    (/\ Composed
     /\ args.layout.customSpacing
     /\ args.layout.spacingType = "grid-aligned") =>
        LET l == args.layout
            dpiPx == args.dpi * SubPx
            last == Cells[Len(Cells)]
        IN  /\ Len(Cells) = l.rows * l.cols
            /\ \A row \in 0..(l.rows - 1) : \A col \in 0..(l.cols - 1) :
                 LET c == Cells[row * l.cols + col + 1]
                 IN  /\ 100 * c.x = 25 * dpiPx + col * (200 * dpiPx + 50 * dpiPx)
                     /\ 100 * c.y = 25 * dpiPx + row * (200 * dpiPx + 25 * dpiPx)
            /\ GapIndependent
            /\ (l.width = 5 /\ l.height = 7 /\ l.cols = 2 /\ l.rows = 3) =>
                 /\ 100 * (canvas.width - (last.x + last.w)) = 25 * dpiPx
                 /\ 100 * (canvas.height - (last.y + last.h)) = 25 * dpiPx

C13_Witness ==
    /\ Composed
    /\ args.layout = GridAlignedLayout
    /\ args.dpi = 300
    /\ args.gapEnabled
    /\ args.gapSize = 10
    /\ Len(Cells) = 6
    /\ Cells[6].x = 825 * SubPx
    /\ Cells[6].y = 1425 * SubPx
    /\ canvas.width - (Cells[6].x + Cells[6].w) = 75 * SubPx

\* C14: with the vertical-apart strategy photo number row is drawn at
\* y = 0.5*dpi + row*(2*dpi + 1.0*dpi), x = (canvasWidth - 2*dpi)/2 whatever
\* gapEnabled and gapSize are; on a 4x6 sheet with 2 rows the second photo
\* ends exactly 0.5*dpi above the bottom edge.
C14_VerticalApartPlacement ==
    (/\ Composed
     /\ args.layout.customSpacing
     /\ args.layout.spacingType = "vertical-apart") =>
        LET l == args.layout
            dpiPx == args.dpi * SubPx
        IN  /\ Len(Cells) = l.rows
            /\ \A row \in 0..(l.rows - 1) :
                 LET c == Cells[row + 1]
                 IN  /\ 100 * c.y = 50 * dpiPx + row * (200 * dpiPx + 100 * dpiPx)
                     /\ 2 * c.x = canvas.width - 2 * dpiPx
            /\ GapIndependent
            /\ (l.width = 4 /\ l.height = 6 /\ l.rows = 2) =>
                 100 * (canvas.height - (Cells[2].y + Cells[2].h)) = 50 * dpiPx

C14_Witness ==
    /\ Composed
    /\ args.layout = VerticalApartLayout
    /\ args.dpi = 300
    /\ args.gapEnabled
    /\ Len(Cells) = 2
    /\ Cells[1].x = 300 * SubPx
    /\ Cells[2].y = 1050 * SubPx
    /\ Cells[2].y + Cells[2].h = 1650 * SubPx

---------------------------------------------------------------------------
(* Properties of the order and shape of the drawing calls *)

DrawsBackgroundGrid(layout) ==
    /\ layout.customSpacing
    /\ layout.spacingType \in {"vertical-apart", "grid-aligned"}

SameCell(o, c) == <<o.x, o.y>> = <<c.x, c.y>>

\* ops[i] outlines the photo drawn just before it: directly after the
\* drawImage of the cell, or after that cell's cutting guide.
FollowsItsPhoto(i) ==
    IF ops[i].op = "cuttingGuide"
    THEN /\ ops[i - 1].op = "drawImage"
         /\ SameCell(ops[i], ops[i - 1])
    ELSE \/ /\ ops[i - 1].op = "drawImage"
            /\ ops[i].x > ops[i - 1].x
            /\ ops[i].x + ops[i].w < ops[i - 1].x + ops[i - 1].w
         \/ /\ ops[i - 1].op = "cuttingGuide"
            /\ ops[i - 2].op = "drawImage"
            /\ SameCell(ops[i - 1], ops[i - 2])

\* C15: one createComposite call resizes the canvas, then fills all of it,
\* then draws the background grid (for vertical-apart and grid-aligned
\* only), then the first photo; each cell's photo is drawn before its
\* cutting guide and its border, and no fill or background grid follows the
\* first photo.
C15_DrawingOrder ==
    Composed =>
        LET first == IF DrawsBackgroundGrid(args.layout) THEN 4 ELSE 3
        IN  /\ Len(ops) >= 2
            /\ ops[1].op = "resize"
            /\ ops[2] = Draw("fillRect", 0, 0, canvas.width, canvas.height, 0)
            /\ DrawsBackgroundGrid(args.layout) =>
                 Len(ops) >= 3 /\ ops[3].op = "backgroundGrid"
            /\ \A i \in first..Len(ops) :
                 /\ ops[i].op \in {"drawImage", "cuttingGuide", "photoBorder"}
                 /\ ops[i].op # "drawImage" => FollowsItsPhoto(i)
            /\ Len(ops) >= first => ops[first].op = "drawImage"

C15_Witness ==
    /\ Composed
    /\ args.layout = GridAlignedLayout
    /\ args.gapEnabled
    /\ args.borderEnabled
    /\ Len(ops) = 21
    /\ ops[3].op = "backgroundGrid"
    /\ ops[4].op = "drawImage"
    /\ ops[5].op = "cuttingGuide"
    /\ ops[6].op = "photoBorder"

IsCuttingGuide(o) == o.op = "cuttingGuide"

IsPhotoBorder(o) == o.op = "photoBorder"

Guides == SelectSeq(ops, IsCuttingGuide)

Borders == SelectSeq(ops, IsPhotoBorder)

\* C16: in every createComposite call and strategy a cutting guide of line
\* width 1 is stroked for a cell exactly when gapEnabled is true, at the
\* cell rectangle (x, y, size, size); a border is stroked for a cell exactly
\* when borderEnabled is true.
C16_GuideIffGapBorderIffBorder ==
    Composed =>
        /\ Len(Guides) = (IF args.gapEnabled THEN Len(Cells) ELSE 0)
        /\ \A i \in 1..Len(Guides) :
             Guides[i] = Draw("cuttingGuide", Cells[i].x, Cells[i].y,
                              2 * args.dpi * SubPx, 2 * args.dpi * SubPx,
                              1 * SubPx)
        /\ Len(Borders) = (IF args.borderEnabled THEN Len(Cells) ELSE 0)

C16_Witness ==
    /\ Composed
    /\ args.layout = LAYOUTS["8x10"]
    /\ args.gapEnabled
    /\ ~args.borderEnabled
    /\ args.gapSize = 5
    /\ args.dpi = 200
    /\ Len(Cells) = 20
    /\ Len(Guides) = 20
    /\ Guides[2].x = 410 * SubPx - 15 * SubPx
    /\ Len(Borders) = 0

---------------------------------------------------------------------------
(* Properties of the debounced callback and of reset *)

\* The gap between call i and the next call; the last call so far has none.
IsLast(i) == i = Len(app.calls)

GapAfter(i) == app.calls[i + 1].t - app.calls[i].t

\* The timer created by call i is still pending.
Pending(i) == \E t \in app.timers : t.call = i

InvokedFor(i) == {k \in 1..Len(app.invoked) : app.invoked[k].call = i}

FromOptions(c) == c.cause = "options"

\* Every invocation of func carries the arguments of the call that set its
\* timer, comes no earlier than the wait after that call, and that call ends
\* a burst: no call followed it by less than the wait.  No call is answered
\* twice.  In PhotoSheetApp each invocation made while an image is loaded
\* causes exactly one createComposite.
InvocationsAnswerBursts ==
    /\ \A k \in 1..Len(app.invoked) :
          LET i == app.invoked[k].call
          IN  /\ app.invoked[k].args = app.calls[i].args
              /\ app.invoked[k].t >= app.calls[i].t + DebounceWait
              /\ IsLast(i) \/ GapAfter(i) >= DebounceWait
    /\ \A i \in 1..Len(app.calls) : Cardinality(InvokedFor(i)) <= 1
    /\ Len(SelectSeq(app.composites, FromOptions))
          = Len(SelectSeq(app.invoked, LAMBDA v : v.image # "null"))

C25_NoCompositeAfterReset ==
    \A k \in 1..Len(app.composites) : ~app.composites[k].afterReset

\* The debounced callback was pending at a reset, has fired after it with
\* no photo loaded since, and made no createComposite call.
C25_Witness ==
    /\ app.awaitingPhoto
    /\ Len(app.invoked) >= 1
    /\ app.invoked[Len(app.invoked)].image = "null"
    /\ app.composites # <<>>
    /\ Len(SelectSeq(app.composites, FromOptions)) = 0
    /\ app.timers = {}

---------------------------------------------------------------------------
(* Properties of the options form *)

\* C28: a change of the paper size leaves borderEnabled as it was: the
\* options the form yields after the change have the border of the options
\* it yielded before.
C28_PaperSizeKeepsBorder ==
    [][(form # NoForm /\ form'.paperSize # form.paperSize)
          => CurrentOptions'.borderEnabled = CurrentOptions.borderEnabled]_vars

\* The same for the page whose spacing and border are separate selects.
PaperSizeKeepsBorderOfPhotoSheetApp ==
    [][(form.handler = "PhotoSheetApp" /\ form'.paperSize # form.paperSize)
          => CurrentOptions'.borderEnabled = CurrentOptions.borderEnabled]_vars

====
